---- MODULE Spec2Model ----
(***************************************************************************)
(* Verdict orchestrator of wikidata-SIFT (scripts/run_verdict_fanout.py).  *)
(*                                                                         *)
(* SpecSession: one run_single_verdict session -- the investigation loop   *)
(*   (run_investigation_phase), the verdict extraction (run_verdict_phase) *)
(*   and the cost lookups -- next to a timer that may set the session's    *)
(*   cancel_event at any moment.                                           *)
(* Spec: the sequential driver (main) with run_with_timeout, one worker    *)
(*   thread per dispatched position of the execution order.                *)
(***************************************************************************)
EXTENDS Integers, Sequences, FiniteSets, TLC

\* ---------------------------------------------------------------- constants

\* Python's None where the code keeps a number or an id.
None == -1

MAX_TURNS == 15

\* Bound: only the first MaxVariedTurns responses of a session vary in usage,
\* id and requested tool calls; every response varies in finish_reason.
MaxVariedTurns == 1

\* Bound: only the first MaxVariedLookups cost lookups of a session may come
\* back unpriced; every lookup may raise.
MaxVariedLookups == 1

\* Bounds of a driver run: edits in the snapshot, joins that time out,
\* file writes that fail.
MaxEdits == 2
MaxTimeouts == 1
MaxWriteFailures == 1

\* Bound: midnights (UTC) that pass while a batch runs.
MaxMidnights == 1

\* Bound: length of a --models override list.
MaxModels == 2

\* LabelCache calls in one run of the model.
MaxCalls == 3

\* Ids per wbgetentities request: the API limit of 50 that resolve_batch
\* chunks by, scaled to the model's three ids.
ChunkSize == 2

\* Bound: edits in one call of group_edits.
MaxGroupEdits == 4

\* Bound: edits in the group handed to enrich_edit_group.
MaxGroupSize == 2

\* models_to_use
Models == <<"vendor/model-a", "vendor/model-b">>

\* ------------------------------------------------------------ session state

VARIABLES
    phase,                    \* position of run_single_verdict
    cancel_event,             \* threading.Event shared with the timer
    messages,                 \* transcript
    turn,                     \* loop variable of run_investigation_phase
    total_prompt_tokens,      \* investigation totals
    total_completion_tokens,
    response_ids,
    finish_status,
    turns,                    \* turn count returned by the investigation
    verdict_content,          \* content of the verdict-extraction response
    verdict_dict,             \* run_verdict_phase result
    vrd_prompt_tokens,
    vrd_completion_tokens,
    cost_idx,                 \* position of the cost loop in response_ids
    total_cost_usd,
    total_prompt_tokens_authoritative,
    total_completion_tokens_authoritative,
    verdict_record,
    \* observation of the session (what its environment saw it do)
    inference_calls,          \* calls to client.chat.completions.create
    cost_calls,               \* calls to fetch_generation_cost
    calls_after_cancelled,    \* calls of either kind made after status cancelled
    inv_calls_after_set,      \* investigation calls started after the signal was set
    inv_done_after_set,       \* investigation calls completed after the signal was set
    last_finish_reason,       \* finish_reason of the latest investigation response
    last_tool_calls,          \* tool calls requested by the latest response
    raised_by,                \* what made the session raise
    id_usage,                 \* per generation id: the usage its response reported
    accounted                 \* tokens of the calls so far, priced or SDK-reported

inv_state == <<messages, turn, total_prompt_tokens, total_completion_tokens,
               response_ids, finish_status, turns>>
verdict_state == <<verdict_content, verdict_dict, vrd_prompt_tokens,
                   vrd_completion_tokens>>
cost_state == <<cost_idx, total_cost_usd, total_prompt_tokens_authoritative,
                total_completion_tokens_authoritative, verdict_record>>
observed == <<inference_calls, cost_calls, calls_after_cancelled,
              inv_calls_after_set, inv_done_after_set, last_finish_reason,
              last_tool_calls, raised_by>>

ledger == <<id_usage, accounted>>

svars == <<phase, cancel_event, inv_state, verdict_state, cost_state,
           observed, ledger>>

\* ------------------------------------------------------------- driver state

VARIABLES
    edits,                    \* rcids of the snapshot's edits, in file order
    pairs,                    \* build_execution_order(edits, models_to_use)
    loaded,                   \* load_checkpoint() at start-up
    completed,                \* main's in-memory set of (rcid, model)
    checkpoint_file,          \* the pairs held by the checkpoint file
    verdict_writes,           \* save_verdict calls that wrote a file
    checkpoint_writes,        \* positions whose save_checkpoint wrote the file
    pos,                      \* index into pairs of the pair at hand (i + 1)
    driver,                   \* "loop", "join" (inside thread.join) or "done"
    skipped_count,
    timeout_count,
    error_count,
    completed_count,
    wstate,                   \* per position: where its worker thread is
    cancel,                   \* per position: the unit's cancel_event
    returned,                 \* per position: what run_with_timeout gave main
    dispatched,               \* positions handed to run_with_timeout, in order
    timeouts,                 \* joins that timed out so far
    write_failures            \* file writes that failed so far

dvars == <<edits, pairs, loaded, completed, checkpoint_file, verdict_writes,
           checkpoint_writes, pos, driver, skipped_count, timeout_count,
           error_count, completed_count, wstate, cancel,
           returned, dispatched, timeouts, write_failures>>

\* ------------------------------------------------------- checkpoint file state

VARIABLES
    state_file,               \* what STATE_PATH holds
    saved,                    \* the set handed to the latest save_checkpoint
    got,                      \* what the latest load_checkpoint returned
    current                   \* got was loaded from the file as it is now

cvars == <<state_file, saved, got, current>>

\* ------------------------------------------------- tool executor state

VARIABLES
    last_fetch_time,          \* tool_executor._last_fetch_time: its last writer
    rate_limited              \* positions whose worker has run _rate_limit

tvars == <<last_fetch_time, rate_limited>>

\* ---------------------------------------------------- verdict directory state

VARIABLES
    edit_meta,                \* per rcid: the title and property of its edit
    today,                    \* the UTC date, in days since the run began
    verdict_dir,              \* the files of VERDICT_DIR
    persisted                 \* the (rcid, model) pairs handed to save_verdict

fvars == <<edit_meta, today, verdict_dir, persisted>>

\* ------------------------------------------------ execution order state

VARIABLES
    order_edits,              \* build_execution_order's edits (their rcids)
    order_models,             \* build_execution_order's models
    order_pairs,              \* the list it returned
    order_built               \* it has returned

ovars == <<order_edits, order_models, order_pairs, order_built>>

\* ------------------------------------------------------------ edit diff state

VARIABLES
    old_entity,               \* the edited property's claims at the old revision
    new_entity,               \* the edited property's claims at the new revision
    parsed_edit,              \* the operation of the parsed summary, or "None"
    edit_diff,                \* what compute_edit_diff returned
    diffed                    \* it has returned

evars == <<old_entity, new_entity, parsed_edit, edit_diff, diffed>>

\* ------------------------------------------------------------ label cache state

VARIABLES
    cache,                    \* LabelCache._cache: entity id -> (label, description)
    requests,                 \* the id chunks the latest resolve_batch sent
    last_response,            \* the entities its successful responses held
    last_call,                \* the latest LabelCache call and what it returned
    calls,                    \* how many calls the cache has served
    fallbacks                 \* the ids cached as their own label after a failed lookup

lvars == <<cache, requests, last_response, last_call, calls, fallbacks>>

\* -------------------------------------------------------------- grouping state

VARIABLES
    group_input,              \* the edits handed to group_edits
    groups,                   \* the list of groups it returned
    grouped                   \* it has returned

gvars == <<group_input, groups, grouped>>

\* ------------------------------------------------------------ enrichment state

VARIABLES
    group,                    \* the edits handed to enrich_edit_group
    store,                    \* what the entity store holds per revision id
    label_cache,              \* the LabelCache passed in
    fetch_log,                \* the revision ids fetched, in order
    lookups,                  \* the ids serialization had to look up one by one
    results,                  \* per edit: item, edit_diff, removed_claim
    enriched                  \* enrich_edit_group has returned

nvars == <<group, store, label_cache, fetch_log, lookups, results, enriched>>

\* --------------------------------------------------- verification question

VARIABLES
    q_parsed,                 \* edit["parsed_edit"]: the operation, or "None"
    q_old,                    \* the property's claims in the old revision
    q_new,                    \* the property's claims in the new revision
    q_fetch,                  \* which snapshot fetch of enrich_edit fails
    q_diff,                   \* edit["edit_diff"] once enrich_edit has run
    question                  \* what make_verification_question returned

qvars == <<q_parsed, q_old, q_new, q_fetch, q_diff, question>>

vars == <<svars, dvars, cvars, tvars, fvars, ovars, evars, lvars, gvars, nvars, qvars>>

\* What the actions of one specification leave alone.
outside_session == <<dvars, cvars, tvars, fvars, ovars, evars, lvars, gvars, nvars, qvars>>
outside_driver == <<svars, cvars, tvars, fvars, ovars, evars, lvars, gvars, nvars, qvars>>
outside_checkpoint == <<svars, dvars, tvars, fvars, ovars, evars, lvars, gvars, nvars, qvars>>
outside_tools == <<svars, cvars, fvars, ovars, evars, lvars, gvars, nvars, qvars>>
outside_verdicts == <<svars, dvars, cvars, tvars, ovars, evars, lvars, gvars, nvars, qvars>>
outside_order == <<svars, dvars, cvars, tvars, fvars, evars, lvars, gvars, nvars, qvars>>
outside_diff == <<svars, dvars, cvars, tvars, fvars, ovars, lvars, gvars, nvars, qvars>>
outside_labels == <<svars, dvars, cvars, tvars, fvars, ovars, evars, gvars, nvars, qvars>>
outside_groups == <<svars, dvars, cvars, tvars, fvars, ovars, evars, lvars, nvars, qvars>>
outside_enrich == <<svars, dvars, cvars, tvars, fvars, ovars, evars, lvars, gvars, qvars>>
outside_question == <<svars, dvars, cvars, tvars, fvars, ovars, evars, lvars, gvars, nvars>>

\* ------------------------------------------------------- endpoint responses

Msg(role, content, tool_calls, tool_call_id) ==
    [role |-> role, content |-> content, tool_calls |-> tool_calls,
     tool_call_id |-> tool_call_id]

\* run_single_verdict: [system prompt, user edit context]
initial_messages ==
    <<Msg("system", "sift_prompt", <<>>, None),
      Msg("user", "edit_context", <<>>, None)>>

\* A requested tool call. arguments: "object" (a JSON object), "not_object"
\* (valid JSON of another type), "bad_json"; tool: what the tool function
\* does when it is reached.
ToolCall(id, name, arguments, tool) ==
    [id |-> id, name |-> name, arguments |-> arguments, tool |-> tool]

ToolCallLists ==
    { <<>>,
      <<ToolCall(1, "web_search", "object", "returns")>>,
      <<ToolCall(1, "web_fetch", "object", "returns"),
        ToolCall(2, "web_search", "not_object", "returns")>>,
      <<ToolCall(1, "web_search", "bad_json", "returns"),
        ToolCall(2, "web_fetch", "object", "raises"),
        ToolCall(3, "unknown_tool", "object", "returns")>> }

FinishReasons == {"stop", "length", "tool_calls", "content_filter"}

\* response.usage, or the absence of it (present = FALSE)
Usage == [present |-> TRUE, prompt_tokens |-> 2, completion_tokens |-> 1]
NoUsage == [present |-> FALSE, prompt_tokens |-> 0, completion_tokens |-> 0]

\* id: None when the response carries no generation id.
Response(fr, content, tcs, usage, id) ==
    [finish_reason |-> fr, content |-> content, tool_calls |-> tcs,
     usage |-> usage, id |-> id]

\* message.content of a response, told apart by its finish_reason
ContentOf(fr) ==
    CASE fr = "stop" -> "final analysis"
      [] fr = "length" -> "partial analysis"
      [] fr = "tool_calls" -> "let me look this up"
      [] OTHER -> "filtered"

\* The responses the endpoint may give to the call of turn t.
InvResponses(t) ==
    IF t < MaxVariedTurns
    THEN { Response(fr, ContentOf(fr), tcs, u, id) :
             fr \in FinishReasons, tcs \in ToolCallLists,
             u \in {Usage, NoUsage}, id \in {None, t + 1} }
    ELSE { Response(fr, ContentOf(fr),
                    <<ToolCall(1, "web_search", "object", "returns")>>,
                    Usage, t + 1) : fr \in FinishReasons }

VerdictContents == {"empty", "invalid_json", "object", "empty_object"}

VerdictResponses ==
    { Response("stop", c, <<>>, u, id) :
        c \in VerdictContents, u \in {Usage, NoUsage},
        id \in {None, MAX_TURNS + 1} }

\* What the cost endpoint may answer to lookup number k of a session:
\* "priced" (HTTP 200 with data) or "unpriced" (any other status -> None).
CostData == [prompt_tokens |-> 3, completion_tokens |-> 2, cost_usd |-> 1]

CostOutcomes(k) ==
    IF k <= MaxVariedLookups THEN {"priced", "unpriced"} ELSE {"priced"}

\* ------------------------------------------------------------ pure helpers

\* Python's `x or y` on numbers: None and 0 are falsy.
PyOr(x, y) == IF x # None /\ x # 0 THEN x ELSE y

\* Mutation of dispatch_tool_call: an unknown tool name is looked up without
\* a guard and the lookup error leaves the function.
dispatch_tool_call_unguarded(tc) ==
    IF tc.arguments = "bad_json"
    THEN "error: Failed to parse tool call arguments as JSON"
    ELSE IF tc.name \notin {"web_search", "web_fetch"} THEN "raise"
    ELSE IF tc.arguments = "not_object" \/ tc.tool = "raises"
    THEN "error: Tool execution failed"
    ELSE IF tc.name = "web_search" THEN "search_results_json" ELSE "page_text"

\* dispatch_tool_call: the string handed back as the tool result.
dispatch_tool_call(tc) ==
    IF tc.arguments = "bad_json"
    THEN "error: Failed to parse tool call arguments as JSON"
    ELSE IF tc.name = "web_search"
         THEN IF tc.arguments = "not_object" \/ tc.tool = "raises"
              THEN "error: Tool execution failed"
              ELSE "search_results_json"
    ELSE IF tc.name = "web_fetch"
         THEN IF tc.arguments = "not_object" \/ tc.tool = "raises"
              THEN "error: Tool execution failed"
              ELSE "page_text"
    ELSE "error: Unknown tool"

\* An exception leaving dispatch_tool_call (the code has no such path).
DispatchRaises(tc) == dispatch_tool_call(tc) = "raise"

\* The assistant turn kept in the transcript for a tool_calls response.
assistant_dict(r) ==
    Msg("assistant", r.content,
        [k \in 1..Len(r.tool_calls) |->
            [id |-> r.tool_calls[k].id, name |-> r.tool_calls[k].name,
             arguments |-> r.tool_calls[k].arguments]],
        None)

\* The tool results appended last call first.
tool_result_msgs_reversed(tcs) ==
    [k \in 1..Len(tcs) |->
        Msg("tool", dispatch_tool_call(tcs[Len(tcs) + 1 - k]), <<>>,
            tcs[Len(tcs) + 1 - k].id)]

tool_result_msgs(tcs) ==
    [k \in 1..Len(tcs) |->
        Msg("tool", dispatch_tool_call(tcs[k]), <<>>, tcs[k].id)]

\* Token counts of no call at all.
NoTokens == [prompt_tokens |-> 0, completion_tokens |-> 0]

\* What the SDK reported for a response: its usage, or nothing.
SdkTokens(r) ==
    IF r.usage.present
    THEN [prompt_tokens |-> PyOr(r.usage.prompt_tokens, 0),
          completion_tokens |-> PyOr(r.usage.completion_tokens, 0)]
    ELSE NoTokens

AddTokens(a, b) ==
    [prompt_tokens |-> a.prompt_tokens + b.prompt_tokens,
     completion_tokens |-> a.completion_tokens + b.completion_tokens]

\* The ledger after response r: a response with a generation id waits for its
\* cost lookup, one without an id can only be counted as the SDK reported it.
Ledger(r) ==
    IF r.id # None
    THEN /\ id_usage' = Append(id_usage, SdkTokens(r))
         /\ UNCHANGED accounted
    ELSE /\ accounted' = AddTokens(accounted, SdkTokens(r))
         /\ UNCHANGED id_usage

NoRecord ==
    [finish_status |-> "none", turns |-> None, prompt_tokens |-> None,
     completion_tokens |-> None, cost_usd |-> None, verdict |-> "None",
     rationale |-> "None", sources |-> <<>>]

\* ----------------------------------------------------------- session: Init

SessionStart ==
    /\ phase = "inv_check"
    /\ cancel_event = FALSE
    /\ messages = initial_messages
    /\ turn = 0
    /\ total_prompt_tokens = 0
    /\ total_completion_tokens = 0
    /\ response_ids = <<>>
    /\ finish_status = "none"
    /\ turns = None
    /\ verdict_content = "unset"
    /\ verdict_dict = "unset"
    /\ vrd_prompt_tokens = 0
    /\ vrd_completion_tokens = 0
    /\ cost_idx = 0
    /\ total_cost_usd = None
    /\ total_prompt_tokens_authoritative = None
    /\ total_completion_tokens_authoritative = None
    /\ verdict_record = NoRecord
    /\ inference_calls = 0
    /\ cost_calls = 0
    /\ calls_after_cancelled = 0
    /\ inv_calls_after_set = 0
    /\ inv_done_after_set = 0
    /\ last_finish_reason = "none"
    /\ last_tool_calls = <<>>
    /\ raised_by = "none"
    /\ id_usage = <<>>
    /\ accounted = NoTokens

\* -------------------------------------------- session: investigation loop

Bump(n, cond) == IF cond THEN n + 1 ELSE n

\* Mutation of CancelObserved: the loop never looks at the signal.
CancelObservedNever == FALSE

\* Mutation of CancelObserved: the signal is looked at before the first turn
\* only.
CancelObservedFirstTurnOnly == cancel_event /\ turn = 0

\* `cancel_event is not None and cancel_event.is_set()` at the turn boundary
CancelObserved == cancel_event

\* Mutation of InRange: the loop runs one turn too many.
InRangeOffByOne(t) == t <= MAX_TURNS

\* `for turn in range(MAX_TURNS)`: the loop body runs for turn t
InRange(t) == t < MAX_TURNS

\* Mutation of StatusFor: the finish_reason is handed back as the status.
StatusForPassThrough(fr) == fr

\* The status returned for a finish_reason other than tool_calls: stop,
\* length, and stop for anything unexpected.
StatusFor(fr) ==
    IF fr = "stop" THEN "stop"
    ELSE IF fr = "length" THEN "length"
    ELSE "stop"

\* Top of the for loop: the turn boundary. The cancellation check, then the
\* call to the endpoint is started.
InvCheck ==
    /\ phase = "inv_check"
    /\ InRange(turn)
    /\ IF CancelObserved
       THEN /\ finish_status' = "cancelled"
            /\ turns' = turn
            /\ phase' = "inv_returned"
            /\ UNCHANGED <<inference_calls, inv_calls_after_set>>
       ELSE /\ phase' = "inv_call"
            /\ inference_calls' = inference_calls + 1
            /\ inv_calls_after_set' = Bump(inv_calls_after_set, cancel_event)
            /\ UNCHANGED <<finish_status, turns>>
    /\ UNCHANGED <<cancel_event, messages, turn, total_prompt_tokens,
                   total_completion_tokens, response_ids>>
    /\ UNCHANGED <<verdict_state, cost_state, cost_calls,
                   calls_after_cancelled, inv_done_after_set,
                   last_finish_reason, last_tool_calls, raised_by>>
    /\ UNCHANGED ledger
    /\ UNCHANGED outside_session

\* The rest of one loop iteration, from the endpoint's response r on.
InvTurn(r) ==
    /\ total_prompt_tokens' =
          IF r.usage.present
          THEN total_prompt_tokens + PyOr(r.usage.prompt_tokens, 0)
          ELSE total_prompt_tokens
    /\ total_completion_tokens' =
          IF r.usage.present
          THEN total_completion_tokens + PyOr(r.usage.completion_tokens, 0)
          ELSE total_completion_tokens
    /\ response_ids' =
          IF r.id # None THEN Append(response_ids, r.id) ELSE response_ids
    /\ Ledger(r)
    /\ last_finish_reason' = r.finish_reason
    /\ last_tool_calls' = r.tool_calls
    /\ inv_done_after_set' = Bump(inv_done_after_set, cancel_event)
    /\ IF r.finish_reason = "tool_calls"
       THEN IF \E k \in 1..Len(r.tool_calls) : DispatchRaises(r.tool_calls[k])
            THEN /\ messages' = Append(messages, assistant_dict(r))
                 /\ phase' = "raised"
                 /\ raised_by' = "dispatch"
                 /\ UNCHANGED <<turn, finish_status, turns>>
            ELSE /\ messages' = messages \o <<assistant_dict(r)>>
                                  \o tool_result_msgs(r.tool_calls)
                 /\ turn' = turn + 1
                 /\ IF InRange(turn + 1)
                    THEN /\ phase' = "inv_check"
                         /\ UNCHANGED <<finish_status, turns>>
                    ELSE \* the loop is exhausted
                         /\ finish_status' = "max_turns"
                         /\ turns' = MAX_TURNS
                         /\ phase' = "inv_returned"
                 /\ UNCHANGED raised_by
       ELSE \* stop, length, or an unexpected finish reason
            /\ messages' = Append(messages, Msg("assistant", r.content, <<>>, None))
            /\ finish_status' = StatusFor(r.finish_reason)
            /\ turns' = turn + 1
            /\ phase' = "inv_returned"
            /\ UNCHANGED <<turn, raised_by>>

InvResponse ==
    /\ phase = "inv_call"
    /\ \E r \in InvResponses(turn) : InvTurn(r)
    /\ UNCHANGED <<cancel_event, verdict_state, cost_state, inference_calls,
                   cost_calls, calls_after_cancelled, inv_calls_after_set>>
    /\ UNCHANGED outside_session

\* client.chat.completions.create raises (after the SDK's own retries).
InvRaise ==
    /\ phase = "inv_call"
    /\ phase' = "raised"
    /\ raised_by' = "inference"
    /\ inv_done_after_set' = Bump(inv_done_after_set, cancel_event)
    /\ UNCHANGED <<cancel_event, inv_state, verdict_state, cost_state,
                   inference_calls, cost_calls, calls_after_cancelled,
                   inv_calls_after_set, last_finish_reason, last_tool_calls>>
    /\ UNCHANGED ledger
    /\ UNCHANGED outside_session

\* ------------------------------------------ session: verdict extraction

\* run_verdict_phase up to its call: the verdict request is appended and the
\* tool-free call is started.
VerdictCall ==
    /\ phase = "inv_returned"
    /\ messages' = Append(messages, Msg("user", "verdict_request", <<>>, None))
    /\ inference_calls' = inference_calls + 1
    /\ calls_after_cancelled' =
          Bump(calls_after_cancelled, finish_status = "cancelled")
    /\ phase' = "verdict_call"
    /\ UNCHANGED <<cancel_event, turn, total_prompt_tokens,
                   total_completion_tokens, response_ids, finish_status, turns>>
    /\ UNCHANGED <<verdict_state, cost_state, cost_calls, inv_calls_after_set,
                   inv_done_after_set, last_finish_reason, last_tool_calls,
                   raised_by>>
    /\ UNCHANGED ledger
    /\ UNCHANGED outside_session

\* Mutation of ParseVerdict: content json.loads rejects is handed back raw.
ParseVerdictRaw(content) == IF content = "empty" THEN "None" ELSE content

\* The verdict run_verdict_phase returns for a response content: "None" for
\* empty content and for content json.loads rejects, else what json.loads
\* gives ("object": a dict with the three keys, "empty_object": the dict {}).
ParseVerdict(content) ==
    IF content = "empty" THEN "None"
    ELSE IF content = "invalid_json" THEN "None"
    ELSE content

\* The rest of run_verdict_phase and run_single_verdict's append of the
\* verdict response id. The transcript is local to the two phases and is
\* dropped here.
VerdictResponse ==
    /\ phase = "verdict_call"
    /\ \E r \in VerdictResponses :
          /\ vrd_prompt_tokens' =
                IF r.usage.present THEN r.usage.prompt_tokens ELSE 0
          /\ vrd_completion_tokens' =
                IF r.usage.present THEN r.usage.completion_tokens ELSE 0
          /\ Ledger(r)
          /\ verdict_content' = r.content
          /\ verdict_dict' = ParseVerdict(r.content)
          /\ response_ids' =
                IF r.id # None THEN Append(response_ids, r.id) ELSE response_ids
    /\ messages' = <<>>
    /\ cost_idx' = 1
    /\ phase' = "cost_loop"
    /\ UNCHANGED <<cancel_event, turn, total_prompt_tokens,
                   total_completion_tokens, finish_status, turns>>
    /\ UNCHANGED <<total_cost_usd, total_prompt_tokens_authoritative,
                   total_completion_tokens_authoritative, verdict_record>>
    /\ UNCHANGED observed
    /\ UNCHANGED outside_session

VerdictRaise ==
    /\ phase = "verdict_call"
    /\ phase' = "raised"
    /\ raised_by' = "inference"
    /\ messages' = <<>>
    /\ UNCHANGED <<cancel_event, turn, total_prompt_tokens,
                   total_completion_tokens, response_ids, finish_status, turns>>
    /\ UNCHANGED <<verdict_state, cost_state, inference_calls, cost_calls,
                   calls_after_cancelled, inv_calls_after_set,
                   inv_done_after_set, last_finish_reason, last_tool_calls>>
    /\ UNCHANGED ledger
    /\ UNCHANGED outside_session

\* ------------------------------------------------ session: cost accounting

\* One iteration of `for gen_id in response_ids`.
CostFetch ==
    /\ phase = "cost_loop"
    /\ cost_idx <= Len(response_ids)
    /\ cost_calls' = cost_calls + 1
    /\ calls_after_cancelled' =
          Bump(calls_after_cancelled, finish_status = "cancelled")
    /\ \/ \E o \in CostOutcomes(cost_idx) :
            /\ IF o = "priced"
               THEN /\ total_cost_usd' = PyOr(total_cost_usd, 0) + CostData.cost_usd
                    /\ total_prompt_tokens_authoritative' =
                          PyOr(total_prompt_tokens_authoritative, 0)
                            + CostData.prompt_tokens
                    /\ total_completion_tokens_authoritative' =
                          PyOr(total_completion_tokens_authoritative, 0)
                            + CostData.completion_tokens
               ELSE UNCHANGED <<total_cost_usd,
                                total_prompt_tokens_authoritative,
                                total_completion_tokens_authoritative>>
            /\ accounted' =
                  AddTokens(accounted,
                            IF o = "priced"
                            THEN [prompt_tokens |-> CostData.prompt_tokens,
                                  completion_tokens |-> CostData.completion_tokens]
                            ELSE id_usage[cost_idx])
            /\ cost_idx' = cost_idx + 1
            /\ UNCHANGED <<phase, raised_by>>
       \/ \* httpx.get raises (transport error, timeout)
          /\ phase' = "raised"
          /\ raised_by' = "cost"
          /\ UNCHANGED <<cost_idx, total_cost_usd, accounted,
                         total_prompt_tokens_authoritative,
                         total_completion_tokens_authoritative>>
    /\ UNCHANGED <<cancel_event, inv_state, verdict_state, verdict_record,
                   inference_calls, inv_calls_after_set, inv_done_after_set,
                   last_finish_reason, last_tool_calls, id_usage>>
    /\ UNCHANGED outside_session

\* The verdict record, once every id has been looked up.
BuildRecord ==
    [finish_status |-> finish_status,
     turns |-> turns,
     prompt_tokens |->
        PyOr(total_prompt_tokens_authoritative,
             total_prompt_tokens + vrd_prompt_tokens),
     completion_tokens |->
        PyOr(total_completion_tokens_authoritative,
             total_completion_tokens + vrd_completion_tokens),
     cost_usd |-> total_cost_usd,
     verdict |-> IF verdict_dict = "object" THEN "plausible" ELSE "None",
     rationale |-> IF verdict_dict = "object" THEN "because" ELSE "None",
     sources |-> IF verdict_dict = "object" THEN <<"https://source">> ELSE <<>>]

ReturnRecord ==
    /\ phase = "cost_loop"
    /\ cost_idx > Len(response_ids)
    /\ verdict_record' = BuildRecord
    /\ phase' = "returned"
    /\ UNCHANGED <<cancel_event, inv_state, verdict_state, cost_idx,
                   total_cost_usd, total_prompt_tokens_authoritative,
                   total_completion_tokens_authoritative>>
    /\ UNCHANGED observed
    /\ UNCHANGED ledger
    /\ UNCHANGED outside_session

\* ------------------------------------------------------- session: the timer

\* run_with_timeout's cancel_event.set(), which may come at any moment of a
\* session that is still running.
SetCancel ==
    /\ phase \notin {"returned", "raised"}
    /\ ~cancel_event
    /\ cancel_event' = TRUE
    /\ UNCHANGED <<phase, inv_state, verdict_state, cost_state, observed>>
    /\ UNCHANGED ledger
    /\ UNCHANGED outside_session

SNext ==
    \/ InvCheck
    \/ InvResponse
    \/ InvRaise
    \/ VerdictCall
    \/ VerdictResponse
    \/ VerdictRaise
    \/ CostFetch
    \/ ReturnRecord
    \/ SetCancel

\* ------------------------------------------------------------------ driver

\* The rcids edits of a snapshot may carry.
Rcids == {1, 2}

\* build_execution_order: edits outer loop, models inner loop
\* Mutation of build_execution_order: models outer loop, edits inner loop.
build_execution_order_models_outer(es, ms) ==
    IF es = <<>> THEN <<>>
    ELSE [q \in 1..(Len(es) * Len(ms)) |->
            <<es[((q - 1) % Len(es)) + 1], ms[((q - 1) \div Len(es)) + 1]>>]

RECURSIVE build_execution_order(_, _)
build_execution_order(es, ms) ==
    IF es = <<>> THEN <<>>
    ELSE [j \in 1..Len(ms) |-> <<Head(es), ms[j]>>]
           \o build_execution_order(Tail(es), ms)

total == Len(pairs)

Positions == 1..(MaxEdits * Len(Models))

\* snapshot["edits"]: any list of edits. Nothing keeps two entries from
\* carrying the same rcid (fetch_unpatrolled_edits lists the changes of each
\* tag in turn, so a change carrying both tags is listed twice).
Snapshots == UNION { [1..n -> Rcids] : n \in 0..MaxEdits }

ModelSet == { Models[j] : j \in 1..Len(Models) }

\* The snapshots main is started on: rcids are named in the order of their
\* first appearance, so the first edit of a snapshot carries rcid 1. Every
\* other snapshot is one of these with the two rcids exchanged, and the
\* checkpoint loaded with it ranges over all sets of pairs.
DriverSnapshots == { es \in Snapshots : es # <<>> => es[1] = 1 }

DriverStart ==
    /\ edits \in DriverSnapshots
    /\ pairs = build_execution_order(edits, Models)
    /\ loaded \in SUBSET (Rcids \X ModelSet)
    /\ completed = loaded
    /\ checkpoint_file = loaded
    /\ verdict_writes = <<>>
    /\ checkpoint_writes = <<>>
    /\ pos = 1
    /\ driver = "loop"
    /\ skipped_count = 0
    /\ timeout_count = 0
    /\ error_count = 0
    /\ completed_count = 0
    /\ wstate = [p \in Positions |-> "unstarted"]
    /\ cancel = [p \in Positions |-> FALSE]
    /\ returned = [p \in Positions |-> "none"]
    /\ dispatched = <<>>
    /\ timeouts = 0
    /\ write_failures = 0

\* Mutation of AlreadyCompleted: the membership test looks at the rcid alone.
AlreadyCompletedRcidOnly(pair) == \E c \in completed : c[1] = pair[1]

\* `if (rcid, model) in completed`
AlreadyCompleted(pair) == pair \in completed

\* Skip already-completed pairs.
Skip ==
    /\ driver = "loop"
    /\ pos <= total
    /\ AlreadyCompleted(pairs[pos])
    /\ skipped_count' = skipped_count + 1
    /\ pos' = pos + 1
    /\ UNCHANGED <<edits, pairs, loaded, completed, checkpoint_file, verdict_writes,
                   checkpoint_writes, driver, timeout_count, error_count,
                   completed_count, wstate, cancel,
                   returned, dispatched, timeouts, write_failures>>
    /\ UNCHANGED outside_driver

\* Mutation of Dispatch: one cancel_event serves every unit, so the worker is
\* started with the flag as the unit before left it.
DispatchSharedEvent ==
    /\ driver = "loop"
    /\ pos <= total
    /\ ~AlreadyCompleted(pairs[pos])
    /\ cancel' = [cancel EXCEPT ![pos] = IF pos > 1 THEN cancel[pos - 1]
                                         ELSE FALSE]
    /\ wstate' = [wstate EXCEPT ![pos] = "running"]
    /\ dispatched' = Append(dispatched, pos)
    /\ driver' = "join"
    /\ UNCHANGED <<edits, pairs, loaded, completed, checkpoint_file, verdict_writes,
                   checkpoint_writes, pos, skipped_count, timeout_count,
                   error_count, completed_count, returned, timeouts,
                   write_failures>>
    /\ UNCHANGED outside_driver

\* run_with_timeout up to thread.join: a fresh cancel_event, the worker
\* thread is started.
Dispatch ==
    /\ driver = "loop"
    /\ pos <= total
    /\ ~AlreadyCompleted(pairs[pos])
    /\ cancel' = [cancel EXCEPT ![pos] = FALSE]
    /\ wstate' = [wstate EXCEPT ![pos] = "running"]
    /\ dispatched' = Append(dispatched, pos)
    /\ driver' = "join"
    /\ UNCHANGED <<edits, pairs, loaded, completed, checkpoint_file, verdict_writes,
                   checkpoint_writes, pos, skipped_count, timeout_count,
                   error_count, completed_count, returned, timeouts,
                   write_failures>>
    /\ UNCHANGED outside_driver

\* Mutation of Advance: a unit that raised is taken up again.
AdvanceRetryRaised(p, outcome) == IF outcome = "raised" THEN p ELSE p + 1

\* The for loop moves on to the next pair, whatever the unit's outcome.
Advance(p, outcome) == p + 1

\* Mutation of EventSet: the timeout branch leaves the flag as it was.
EventSetDropped == FALSE

\* The flag of a threading.Event after set()
EventSet == TRUE

\* thread.is_alive()
IsAlive(p) == wstate[p] \in {"running", "cancelled"}

\* How the file writes of one pair may go. save_checkpoint opens the file
\* with mode "w" and then dumps into it: it fails before the file is opened,
\* which leaves the file as it was, or after, which leaves it truncated.
WriteOutcomes ==
    IF write_failures < MaxWriteFailures
    THEN {"ok", "verdict_write_fails", "checkpoint_write_fails",
          "checkpoint_write_truncates"}
    ELSE {"ok"}

\* main, from save_verdict to the end of the loop body: the verdict file,
\* completed.add, save_checkpoint; an exception of either write lands in the
\* except branch.
Persist(timed_out, io) ==
    /\ IF io = "verdict_write_fails"
       THEN /\ error_count' = error_count + 1
            /\ write_failures' = write_failures + 1
            /\ UNCHANGED <<verdict_writes, completed, checkpoint_file,
                           checkpoint_writes>>
       ELSE /\ verdict_writes' =
                  Append(verdict_writes,
                         [pos |-> pos, pair |-> pairs[pos], timeout |-> timed_out])
            /\ completed' = completed \cup {pairs[pos]}
            /\ IF io \in {"checkpoint_write_fails", "checkpoint_write_truncates"}
               THEN /\ error_count' = error_count + 1
                    /\ write_failures' = write_failures + 1
                    /\ checkpoint_file' =
                          IF io = "checkpoint_write_truncates" THEN {}
                          ELSE checkpoint_file
                    /\ UNCHANGED checkpoint_writes
               ELSE /\ checkpoint_file' = completed \cup {pairs[pos]}
                    /\ checkpoint_writes' = Append(checkpoint_writes, pos)
                    /\ UNCHANGED <<error_count, write_failures>>

\* thread.join returned because the worker ended: run_with_timeout re-raises
\* the worker's exception or returns (result, False); main goes on from there.
JoinFinished ==
    /\ driver = "join"
    /\ ~IsAlive(pos)
    /\ IF wstate[pos] = "raised"
       THEN /\ returned' = [returned EXCEPT ![pos] = "raised"]
            /\ error_count' = error_count + 1
            /\ UNCHANGED <<verdict_writes, completed, checkpoint_file,
                           checkpoint_writes, completed_count, write_failures>>
       ELSE /\ returned' = [returned EXCEPT ![pos] = "result"]
            /\ completed_count' = completed_count + 1
            /\ \E io \in WriteOutcomes : Persist(FALSE, io)
    /\ pos' = Advance(pos, returned'[pos])
    /\ driver' = "loop"
    /\ UNCHANGED <<edits, pairs, loaded, skipped_count, timeout_count, wstate,
                   cancel, dispatched, timeouts>>
    /\ UNCHANGED outside_driver

\* Mutation of JoinTimeout: thread.join() without a timeout waits for as long
\* as the worker is alive.
JoinUnbounded ==
    /\ driver = "join"
    /\ IsAlive(pos)
    /\ UNCHANGED vars

\* thread.join timed out with the worker still alive: cancel_event.set(),
\* return (None, True); main writes the timeout verdict and goes on.
JoinTimeout ==
    /\ driver = "join"
    /\ IsAlive(pos)
    /\ timeouts < MaxTimeouts
    /\ timeouts' = timeouts + 1
    /\ cancel' = [cancel EXCEPT ![pos] = EventSet]
    /\ returned' = [returned EXCEPT ![pos] = "timed_out"]
    /\ timeout_count' = timeout_count + 1
    /\ \E io \in WriteOutcomes : Persist(TRUE, io)
    /\ pos' = Advance(pos, returned'[pos])
    /\ driver' = "loop"
    /\ UNCHANGED <<edits, pairs, loaded, skipped_count, completed_count, wstate,
                   dispatched>>
    /\ UNCHANGED outside_driver

\* The loop is exhausted: the counts are printed.
Finish ==
    /\ driver = "loop"
    /\ pos > total
    /\ driver' = "done"
    /\ UNCHANGED <<edits, pairs, loaded, completed, checkpoint_file, verdict_writes,
                   checkpoint_writes, pos, skipped_count, timeout_count,
                   error_count, completed_count, wstate,
                   cancel, returned, dispatched, timeouts, write_failures>>
    /\ UNCHANGED outside_driver

\* ---------------------------------------------------- driver: worker threads
\* The worker of position p runs run_single_verdict(..., cancel_event) in
\* its own thread; the driver sees of it only whether it is alive and how it
\* ended. It goes on running after a timeout.

WorkerUnchanged ==
    UNCHANGED <<edits, pairs, loaded, completed, checkpoint_file,
                checkpoint_writes, pos, driver, skipped_count, timeout_count,
                error_count, completed_count, cancel, returned, dispatched,
                timeouts, write_failures>>

\* Mutation of WorkerSaves: the worker saves the record it built itself.
WorkerSavesOwnVerdict(p) ==
    Append(verdict_writes, [pos |-> p, pair |-> pairs[p], timeout |-> FALSE])

\* The verdict files after the worker of position p ran: run_single_verdict
\* hands its record back and writes no file.
WorkerSaves(p) == verdict_writes

\* The worker reaches a turn boundary of its investigation loop with the
\* signal set: the investigation ends as cancelled and run_single_verdict
\* goes on to the verdict extraction.
WorkerObserveCancel(p) ==
    /\ wstate[p] = "running"
    /\ cancel[p]
    /\ wstate' = [wstate EXCEPT ![p] = "cancelled"]
    /\ WorkerUnchanged
    /\ UNCHANGED verdict_writes
    /\ UNCHANGED outside_driver

\* run_single_verdict ends: target() stores the record it returned, or the
\* exception it raised.
WorkerEnd(p) ==
    /\ wstate[p] \in {"running", "cancelled"}
    /\ \E end \in {"returned", "raised"} :
          wstate' = [wstate EXCEPT ![p] = end]
    /\ verdict_writes' = WorkerSaves(p)
    /\ WorkerUnchanged
    /\ UNCHANGED outside_driver

\* ----------------------------------------------------- workers: tool calls

\* A tool call of the worker of position p reaches _rate_limit (web_search
\* and web_fetch both start with it): the module global _last_fetch_time is
\* read and then written. Tool calls are made by a worker that is inside
\* its investigation loop.
WorkerRateLimit(p) ==
    /\ wstate[p] = "running"
    /\ last_fetch_time' = p
    /\ rate_limited' = rate_limited \cup {p}
    /\ UNCHANGED dvars
    /\ UNCHANGED outside_tools

ToolsIdle ==
    /\ last_fetch_time = 0
    /\ rate_limited = {}

\* --------------------------------------------------------- checkpoint file

\* The (rcid, model) pairs a checkpoint may hold.
CheckpointPairs == Rcids \X ModelSet

\* Position of a pair in Python's tuple order: rcid first, then the model id.
ModelRank(model) == CHOOSE j \in 1..Len(Models) : Models[j] = model
PairRank(pair) == pair[1] * (Len(Models) + 1) + ModelRank(pair[2])

\* sorted(completed)
RECURSIVE sorted(_)
sorted(S) ==
    IF S = {} THEN <<>>
    ELSE LET least == CHOOSE x \in S : \A y \in S : PairRank(x) <= PairRank(y)
         IN <<least>> \o sorted(S \ {least})

\* The checkpoint file: absent, empty text, a YAML document without the
\* "completed" key, or a document whose "completed" key lists entries.
File(kind, entries) == [kind |-> kind, completed |-> entries]

\* [{"rcid": rcid, "model": model} for rcid, model in ...]
Entries(seq) ==
    [k \in 1..Len(seq) |-> [rcid |-> seq[k][1], model |-> seq[k][2]]]

\* Mutation of save_checkpoint: one entry is kept per rcid.
save_checkpoint_per_rcid(S) ==
    File("document",
         Entries(sorted({ x \in S : \A y \in S :
                             y[1] = x[1] => PairRank(x) <= PairRank(y) })))

\* save_checkpoint: {"completed": entries}, the entries sorted
save_checkpoint(S) == File("document", Entries(sorted(S)))

\* load_checkpoint
load_checkpoint(file) ==
    IF file.kind = "missing" THEN {}
    ELSE IF file.kind \in {"empty", "no_key"} THEN {}
    ELSE { <<file.completed[k].rcid, file.completed[k].model>> :
             k \in 1..Len(file.completed) }

CheckpointStart ==
    /\ \/ /\ state_file \in { File(kind, <<>>) :
                                 kind \in {"missing", "empty", "no_key"} }
          /\ saved = {}
       \/ \E S \in SUBSET CheckpointPairs :
             /\ state_file = save_checkpoint(S)
             /\ saved = S
    /\ got = {}
    /\ current = FALSE

SaveCheckpoint ==
    /\ \E S \in SUBSET CheckpointPairs :
          /\ state_file' = save_checkpoint(S)
          /\ saved' = S
    /\ current' = FALSE
    /\ UNCHANGED got
    /\ UNCHANGED outside_checkpoint

LoadCheckpoint ==
    /\ got' = load_checkpoint(state_file)
    /\ current' = TRUE
    /\ UNCHANGED <<state_file, saved>>
    /\ UNCHANGED outside_checkpoint

\* save_checkpoint(load_checkpoint()): what a resumed run does at its
\* first recorded pair, less the pair.
SaveLoaded ==
    /\ current
    /\ state_file' = save_checkpoint(got)
    /\ saved' = got
    /\ UNCHANGED <<got, current>>
    /\ UNCHANGED outside_checkpoint

\* The file is removed, emptied, or replaced by a document of other keys.
LoseFile ==
    /\ \E kind \in {"missing", "empty", "no_key"} :
          state_file' = File(kind, <<>>)
    /\ saved' = {}
    /\ current' = FALSE
    /\ UNCHANGED got
    /\ UNCHANGED outside_checkpoint

CNext ==
    \/ SaveCheckpoint
    \/ LoadCheckpoint
    \/ SaveLoaded
    \/ LoseFile

CheckpointIdle ==
    /\ state_file = File("missing", <<>>)
    /\ saved = {}
    /\ got = {}
    /\ current = FALSE

\* ------------------------------------------------------- verdict directory

\* edit["title"] and parsed_edit["property"] of the edits of a snapshot.
Titles == {"Q1", "Q2"}
Properties == {"P1", "P2"}

\* model_slug: the last segment of the model id after "/".
model_slug(model_id) ==
    CASE model_id = "vendor/model-a" -> "model-a"
      [] model_id = "vendor/model-b" -> "model-b"

\* save_verdict: {date}-{title}-{property}-{model_slug}.yaml
VerdictFilename(rcid, model) ==
    [date |-> today, title |-> edit_meta[rcid].title,
     prop |-> edit_meta[rcid].prop, slug |-> model_slug(model)]

VerdictsStart ==
    /\ edit_meta \in [Rcids -> [title : Titles, prop : Properties]]
    /\ today = 0
    /\ verdict_dir = {}
    /\ persisted = {}

\* save_verdict(verdict, edit, model), called by main once for a pair:
\* open(out_path, "w") replaces a file of the same name.
SaveVerdict ==
    /\ \E rcid \in Rcids, model \in ModelSet :
          /\ <<rcid, model>> \notin persisted
          /\ persisted' = persisted \cup {<<rcid, model>>}
          /\ verdict_dir' =
                { f \in verdict_dir : f.name # VerdictFilename(rcid, model) }
                  \cup {[name |-> VerdictFilename(rcid, model),
                         rcid |-> rcid, model |-> model]}
    /\ UNCHANGED <<edit_meta, today>>
    /\ UNCHANGED outside_verdicts

\* Midnight UTC passes between two pairs.
Midnight ==
    /\ today < MaxMidnights
    /\ today' = today + 1
    /\ UNCHANGED <<edit_meta, verdict_dir, persisted>>
    /\ UNCHANGED outside_verdicts

VNext ==
    \/ SaveVerdict
    \/ Midnight

VerdictsIdle ==
    /\ edit_meta = [r \in Rcids |-> [title |-> "Q1", prop |-> "P1"]]
    /\ today = 0
    /\ verdict_dir = {}
    /\ persisted = {}

\* --------------------------------------------------------- execution order

\* Model ids a --models override may name.
OrderModels == {"vendor/model-a", "vendor/model-b", "vendor/model-c"}

ModelLists == UNION { [1..n -> OrderModels] : n \in 0..MaxModels }

OrderStart ==
    /\ order_edits \in Snapshots
    /\ order_models \in ModelLists
    /\ order_pairs = <<>>
    /\ order_built = FALSE

\* pairs = build_execution_order(edits, models_to_use)
BuildOrder ==
    /\ ~order_built
    /\ order_pairs' = build_execution_order(order_edits, order_models)
    /\ order_built' = TRUE
    /\ UNCHANGED <<order_edits, order_models>>
    /\ UNCHANGED outside_order

ONext == BuildOrder

OrderIdle ==
    /\ order_edits = <<>>
    /\ order_models = <<>>
    /\ order_pairs = <<>>
    /\ order_built = FALSE

\* ---------------------------------------------------------------- edit diff

StatementIds == {"s1", "s2"}

\* Main snaks as the entity JSON carries them: a datavalue type, the part
\* extract_snak_value returns, and the part it drops.
Mainsnaks ==
    { [type |-> "wikibase-entityid", value |-> "Q5", unit |-> "none"],
      [type |-> "quantity", value |-> "+5", unit |-> "Q11570"],
      [type |-> "quantity", value |-> "+5", unit |-> "Q41803"] }

RawRanks == {"normal", "preferred"}

\* A reference block: the snaks it lists under its one property.
ReferenceBlocks == { <<"url-a">>, <<"url-a", "url-b">>, <<"url-c">> }

RawReferences ==
    { <<>>,
      << <<"url-a">> >>,
      << <<"url-a", "url-b">> >>,
      << <<"url-c">> >>,
      << <<"url-a">>, <<"url-c">> >> }

\* Qualifiers: property id and the snaks listed under it.
RawQualifiers ==
    { {}, { <<"P580", <<"2023">> >> }, { <<"P580", <<"2024">> >> } }

RawClaims(id) ==
    [ id : {id}, mainsnak : Mainsnaks, rank : RawRanks,
      references : RawReferences, qualifiers : RawQualifiers ]

\* The statement of the property that the edit does not touch.
OtherClaim ==
    [ id |-> "s2",
      mainsnak |-> [type |-> "wikibase-entityid", value |-> "Q5",
                    unit |-> "none"],
      rank |-> "normal", references |-> <<>>, qualifiers |-> {} ]

\* entity.get("claims", {}).get(prop, []): the statements in document order.
ClaimLists ==
    { a \o b : a \in {<<>>} \cup { <<c>> : c \in RawClaims("s1") },
               b \in {<<>>, <<OtherClaim>>} }

extract_snak_value(snak) ==
    CASE snak.type = "wikibase-entityid" -> snak.value
      [] snak.type = "quantity" -> snak.value
      [] OTHER -> snak.value

\* ref_dict[ref_pid] is built from snaks[0] alone.
SerializeReference(ref_block) == Head(ref_block)

SerializeQualifier(q) == <<q[1], Head(q[2])>>

serialize_statement(claim_json) ==
    [ value |-> extract_snak_value(claim_json.mainsnak),
      rank |-> IF claim_json.rank = "absent" THEN "normal" ELSE claim_json.rank,
      references |->
          [ i \in 1..Len(claim_json.references) |->
              SerializeReference(claim_json.references[i]) ],
      qualifiers |-> { SerializeQualifier(q) : q \in claim_json.qualifiers } ]

\* old_value / new_value left at None.
NoStatement ==
    [ value |-> "None", rank |-> "None", references |-> <<>>,
      qualifiers |-> {} ]

\* compute_edit_diff returning None.
NoDiff ==
    [ type |-> "None", old_value |-> NoStatement, new_value |-> NoStatement ]

Operations ==
    { "wbsetclaim-create", "wbcreateclaim-create", "wbremoveclaims-remove",
      "wbsetclaim-update", "wbsetclaimvalue", "wbsetreference-add",
      "wbsetreference-set", "wbremovereferences-remove", "wbsetqualifier-add",
      "wbsetqualifier-update", "wbremovequalifiers-remove",
      "wbeditentity-update" }

OPERATION_TO_DIFF_TYPE(operation) ==
    CASE operation = "wbsetclaim-create" -> "statement_added"
      [] operation = "wbcreateclaim-create" -> "statement_added"
      [] operation = "wbremoveclaims-remove" -> "statement_removed"
      [] operation = "wbsetclaim-update" -> "value_changed"
      [] operation = "wbsetclaimvalue" -> "value_changed"
      [] operation = "wbsetreference-add" -> "reference_added"
      [] operation = "wbsetreference-set" -> "reference_changed"
      [] operation = "wbremovereferences-remove" -> "reference_removed"
      [] operation = "wbsetqualifier-add" -> "qualifier_added"
      [] operation = "wbsetqualifier-update" -> "qualifier_changed"
      [] operation = "wbremovequalifiers-remove" -> "qualifier_removed"
      [] OTHER -> "unknown"

\* The reference branch taken whatever the two lists hold.
refine_diff_type_references_flat(old_stmt, new_stmt) ==
    LET value_changed == old_stmt.value # new_stmt.value
        rank_changed == old_stmt.rank # new_stmt.rank
        refs_changed == old_stmt.references # new_stmt.references
        quals_changed == old_stmt.qualifiers # new_stmt.qualifiers
    IN  IF value_changed THEN "value_changed"
        ELSE IF refs_changed /\ ~quals_changed /\ ~rank_changed
        THEN "reference_changed"
        ELSE IF quals_changed /\ ~refs_changed /\ ~rank_changed
        THEN IF old_stmt.qualifiers = {} /\ new_stmt.qualifiers # {}
             THEN "qualifier_added"
             ELSE IF old_stmt.qualifiers # {} /\ new_stmt.qualifiers = {}
             THEN "qualifier_removed"
             ELSE "qualifier_changed"
        ELSE IF rank_changed /\ ~refs_changed /\ ~quals_changed
        THEN "rank_changed"
        ELSE "value_changed"

\* The value compared after the references, the qualifiers and the rank.
refine_diff_type_value_last(old_stmt, new_stmt) ==
    LET value_changed == old_stmt.value # new_stmt.value
        rank_changed == old_stmt.rank # new_stmt.rank
        refs_changed == old_stmt.references # new_stmt.references
        quals_changed == old_stmt.qualifiers # new_stmt.qualifiers
    IN  IF refs_changed /\ ~quals_changed /\ ~rank_changed
        THEN IF old_stmt.references = <<>> /\ new_stmt.references # <<>>
             THEN "reference_added"
             ELSE IF old_stmt.references # <<>> /\ new_stmt.references = <<>>
             THEN "reference_removed"
             ELSE "reference_changed"
        ELSE IF quals_changed /\ ~refs_changed /\ ~rank_changed
        THEN IF old_stmt.qualifiers = {} /\ new_stmt.qualifiers # {}
             THEN "qualifier_added"
             ELSE IF old_stmt.qualifiers # {} /\ new_stmt.qualifiers = {}
             THEN "qualifier_removed"
             ELSE "qualifier_changed"
        ELSE IF rank_changed /\ ~refs_changed /\ ~quals_changed
        THEN "rank_changed"
        ELSE "value_changed"

\* Each field looked at in turn, the others not consulted.
refine_diff_type_first_field(old_stmt, new_stmt) ==
    LET value_changed == old_stmt.value # new_stmt.value
        rank_changed == old_stmt.rank # new_stmt.rank
        refs_changed == old_stmt.references # new_stmt.references
        quals_changed == old_stmt.qualifiers # new_stmt.qualifiers
    IN  IF value_changed THEN "value_changed"
        ELSE IF refs_changed
        THEN IF old_stmt.references = <<>> /\ new_stmt.references # <<>>
             THEN "reference_added"
             ELSE IF old_stmt.references # <<>> /\ new_stmt.references = <<>>
             THEN "reference_removed"
             ELSE "reference_changed"
        ELSE IF quals_changed
        THEN IF old_stmt.qualifiers = {} /\ new_stmt.qualifiers # {}
             THEN "qualifier_added"
             ELSE IF old_stmt.qualifiers # {} /\ new_stmt.qualifiers = {}
             THEN "qualifier_removed"
             ELSE "qualifier_changed"
        ELSE IF rank_changed
        THEN "rank_changed"
        ELSE "value_changed"

refine_diff_type(old_stmt, new_stmt) ==
    LET value_changed == old_stmt.value # new_stmt.value
        rank_changed == old_stmt.rank # new_stmt.rank
        refs_changed == old_stmt.references # new_stmt.references
        quals_changed == old_stmt.qualifiers # new_stmt.qualifiers
    IN  IF value_changed THEN "value_changed"
        ELSE IF refs_changed /\ ~quals_changed /\ ~rank_changed
        THEN IF old_stmt.references = <<>> /\ new_stmt.references # <<>>
             THEN "reference_added"
             ELSE IF old_stmt.references # <<>> /\ new_stmt.references = <<>>
             THEN "reference_removed"
             ELSE "reference_changed"
        ELSE IF quals_changed /\ ~refs_changed /\ ~rank_changed
        THEN IF old_stmt.qualifiers = {} /\ new_stmt.qualifiers # {}
             THEN "qualifier_added"
             ELSE IF old_stmt.qualifiers # {} /\ new_stmt.qualifiers = {}
             THEN "qualifier_removed"
             ELSE "qualifier_changed"
        ELSE IF rank_changed /\ ~refs_changed /\ ~quals_changed
        THEN "rank_changed"
        ELSE "value_changed"

\* {c["id"] for c in claims}
IdsOf(claims) == { claims[i].id : i \in DOMAIN claims }

\* by_id[stmt_id]
ById(claims, stmt_id) ==
    claims[CHOOSE i \in DOMAIN claims : claims[i].id = stmt_id]

\* next(iter(ids)): a set of strings is iterated in no fixed order; first is
\* the id this run's order puts first when it is one of ids.
NextIter(ids, first) ==
    IF first \in ids THEN first ELSE CHOOSE stmt_id \in ids : TRUE

compute_edit_diff(old_claims, new_claims, operation, first) ==
    IF operation = "None" THEN NoDiff
    ELSE
    LET diff_type == OPERATION_TO_DIFF_TYPE(operation)
        old_ids == IdsOf(old_claims)
        new_ids == IdsOf(new_claims)
        added_ids == new_ids \ old_ids
        removed_ids == old_ids \ new_ids
        common_ids == old_ids \cap new_ids
        old_value ==
            IF diff_type = "statement_added" THEN NoStatement
            ELSE IF diff_type = "statement_removed"
            THEN IF removed_ids # {}
                 THEN serialize_statement(
                          ById(old_claims, NextIter(removed_ids, first)))
                 ELSE NoStatement
            ELSE IF common_ids # {}
                 THEN serialize_statement(
                          ById(old_claims, NextIter(common_ids, first)))
                 ELSE NoStatement
        new_value ==
            IF diff_type = "statement_added"
            THEN IF added_ids # {}
                 THEN serialize_statement(
                          ById(new_claims, NextIter(added_ids, first)))
                 ELSE NoStatement
            ELSE IF diff_type = "statement_removed" THEN NoStatement
            ELSE IF common_ids # {}
                 THEN serialize_statement(
                          ById(new_claims, NextIter(common_ids, first)))
                 ELSE IF new_claims # <<>>
                      THEN serialize_statement(Head(new_claims))
                      ELSE NoStatement
    IN  [ type |-> IF /\ diff_type = "value_changed"
                      /\ old_value # NoStatement
                      /\ new_value # NoStatement
                   THEN refine_diff_type(old_value, new_value)
                   ELSE diff_type,
          old_value |-> old_value,
          new_value |-> new_value ]

DiffStart ==
    /\ old_entity \in ClaimLists
    /\ new_entity \in ClaimLists
    /\ parsed_edit \in Operations \cup {"None"}
    /\ edit_diff = NoDiff
    /\ diffed = FALSE

\* edit_diff = compute_edit_diff(old_entity, new_entity, parsed_edit, cache)
ComputeEditDiff ==
    /\ ~diffed
    /\ \E first \in StatementIds :
          edit_diff' =
              compute_edit_diff(old_entity, new_entity, parsed_edit, first)
    /\ diffed' = TRUE
    /\ UNCHANGED <<old_entity, new_entity, parsed_edit>>
    /\ UNCHANGED outside_diff

DNext == ComputeEditDiff

DiffIdle ==
    /\ old_entity = <<>>
    /\ new_entity = <<>>
    /\ parsed_edit = "None"
    /\ edit_diff = NoDiff
    /\ diffed = FALSE

\* -------------------------------------------------------------- label cache

EntityIds == {"P31", "Q42", "Q5"}

\* The order in which this run iterates a set of ids.
IdOrder == <<"P31", "Q42", "Q5">>

\* Texts: the identifier itself, a label or description of the entity in a
\* language, a label marked with its language, a text handed to prime.
NoneText == [kind |-> "None", of |-> "-", lang |-> "-"]
IdText(entity_id) == [kind |-> "id", of |-> entity_id, lang |-> "-"]
LabelText(entity_id, lang) == [kind |-> "label", of |-> entity_id, lang |-> lang]
MarkedText(entity_id, lang) == [kind |-> "marked", of |-> entity_id, lang |-> lang]
DescriptionText(entity_id) == [kind |-> "description", of |-> entity_id, lang |-> "en"]
PrimedLabel == [kind |-> "primed_label", of |-> "-", lang |-> "-"]
PrimedDescription == [kind |-> "primed_description", of |-> "-", lang |-> "-"]

\* What the entity store answers for one entity: the languages it has a
\* label in, and whether it has an English description.
EntityDatas ==
    { [status |-> "ok", labels |-> {"en"}, description |-> TRUE],
      [status |-> "ok", labels |-> {"en", "de"}, description |-> FALSE],
      [status |-> "ok", labels |-> {"de"}, description |-> TRUE],
      [status |-> "ok", labels |-> {}, description |-> FALSE] }

\* page.get() raising.
Failure == [status |-> "failed", labels |-> {}, description |-> FALSE]

\* An id the batch response has no entry for.
Absent == [status |-> "absent", labels |-> {}, description |-> FALSE]

EmptyCache == [x \in {} |-> [label |-> NoneText, description |-> NoneText]]

\* A cache of one slot: storing an entry drops every other id.
PutEvicting(c, entity_id, entry) ==
    [x \in {entity_id} |-> entry]

\* self._cache[entity_id] = entry
Put(c, entity_id, entry) ==
    [x \in DOMAIN c \cup {entity_id} |-> IF x = entity_id THEN entry ELSE c[x]]

\* The entry resolve caches from page.get().
PageEntry(entity_id, page) ==
    IF page.status = "failed"
    THEN [label |-> IdText(entity_id), description |-> NoneText]
    ELSE [label |-> IF "en" \in page.labels
                    THEN LabelText(entity_id, "en")
                    ELSE IdText(entity_id),
          description |-> IF page.description
                          THEN DescriptionText(entity_id)
                          ELSE NoneText]

\* The entry resolve_batch caches from one entity of the response.
BatchEntry(eid, entity_data) ==
    [label |-> IF "en" \in entity_data.labels
               THEN LabelText(eid, "en")
               ELSE IdText(eid),
     description |-> IF entity_data.description
                     THEN DescriptionText(eid)
                     ELSE NoneText]

\* A lookup that fell back to the id is tried again at the next call.
resolve_retrying_fallbacks(c, entity_id, page) ==
    IF entity_id \in DOMAIN c /\ c[entity_id].label # IdText(entity_id) THEN c
    ELSE Put(c, entity_id, PageEntry(entity_id, page))

resolve(c, entity_id, page) ==
    IF entity_id \in DOMAIN c THEN c
    ELSE Put(c, entity_id, PageEntry(entity_id, page))

\* A prime without description keeps the description cached before.
prime_keeping_description(c, entity_id, label, description) ==
    Put(c, entity_id,
        [label |-> label,
         description |-> IF description = NoneText /\ entity_id \in DOMAIN c
                         THEN c[entity_id].description
                         ELSE description])

prime(c, entity_id, label, description) ==
    Put(c, entity_id, [label |-> label, description |-> description])

\* Every id asked for again, cached or not.
NeededUnfiltered(c, entity_ids) ==
    SelectSeq(IdOrder, LAMBDA eid : eid \in entity_ids)

\* needed = [eid for eid in entity_ids if eid not in self._cache]
Needed(c, entity_ids) ==
    SelectSeq(IdOrder, LAMBDA eid : eid \in entity_ids /\ eid \notin DOMAIN c)

\* needed[i:i + ChunkSize] for i in range(0, len(needed), ChunkSize)
Chunks(needed) ==
    [k \in 1..((Len(needed) + ChunkSize - 1) \div ChunkSize) |->
        SubSeq(needed, (k - 1) * ChunkSize + 1,
               IF k * ChunkSize < Len(needed) THEN k * ChunkSize
               ELSE Len(needed))]

SeqSet(s) == { s[i] : i \in DOMAIN s }

\* The ids of the chunks whose request raised.
FailedIds(chunks, failed) == UNION { SeqSet(chunks[k]) : k \in failed }

\* A request that raises ends the whole call: its ids and those of the
\* chunks after it stay out of the cache.
resolve_batch_raising(c, entity_ids, failed, data) ==
    LET chunks == Chunks(Needed(c, entity_ids))
        before == { k \in DOMAIN chunks : \A j \in failed : k < j }
        answered == { eid \in UNION { SeqSet(chunks[k]) : k \in before } :
                        data[eid].status = "ok" }
    IN  [x \in DOMAIN c \cup answered |->
            IF x \in DOMAIN c THEN c[x] ELSE BatchEntry(x, data[x])]

\* The cache after resolve_batch: failed holds the chunks whose request
\* raised, data what the response of the others holds for each id.
resolve_batch(c, entity_ids, failed, data) ==
    LET chunks == Chunks(Needed(c, entity_ids))
        degraded == FailedIds(chunks, failed)
        answered == { eid \in SeqSet(Needed(c, entity_ids)) \ degraded :
                        data[eid].status = "ok" }
    IN  [x \in DOMAIN c \cup degraded \cup answered |->
            IF x \in DOMAIN c THEN c[x]
            ELSE IF x \in degraded
            THEN [label |-> IdText(x), description |-> NoneText]
            ELSE BatchEntry(x, data[x])]

NoCall ==
    [op |-> "none", ids |-> {}, label |-> NoneText, description |-> NoneText,
     returned |-> NoneText, page_gets |-> 0, page |-> Absent, failed |-> {}]

\* LabelCache(site)
LabelsStart ==
    /\ cache = EmptyCache
    /\ requests = <<>>
    /\ last_response = <<>>
    /\ last_call = NoCall
    /\ calls = 0
    /\ fallbacks = {}

\* label_cache.resolve(entity_id)
Resolve(entity_id) ==
    /\ calls < MaxCalls
    /\ calls' = calls + 1
    /\ \E page \in EntityDatas \cup {Failure} :
          /\ cache' = resolve(cache, entity_id, page)
          /\ last_call' =
                [NoCall EXCEPT !.op = "resolve", !.ids = {entity_id},
                    !.returned = cache'[entity_id].label,
                    !.page_gets = IF entity_id \in DOMAIN cache THEN 0 ELSE 1,
                    !.page = IF entity_id \in DOMAIN cache THEN Absent ELSE page]
          /\ fallbacks' =
                IF entity_id \notin DOMAIN cache /\ page.status = "failed"
                THEN fallbacks \cup {entity_id}
                ELSE fallbacks
    /\ requests' = <<>>
    /\ last_response' = <<>>
    /\ UNCHANGED outside_labels

\* label_cache.resolve_description(entity_id)
ResolveDescription(entity_id) ==
    /\ calls < MaxCalls
    /\ calls' = calls + 1
    /\ \E page \in EntityDatas \cup {Failure} :
          /\ cache' = resolve(cache, entity_id, page)
          /\ last_call' =
                [NoCall EXCEPT !.op = "resolve_description",
                    !.ids = {entity_id},
                    !.returned = cache'[entity_id].description,
                    !.page_gets = IF entity_id \in DOMAIN cache THEN 0 ELSE 1,
                    !.page = IF entity_id \in DOMAIN cache THEN Absent ELSE page]
          /\ fallbacks' =
                IF entity_id \notin DOMAIN cache /\ page.status = "failed"
                THEN fallbacks \cup {entity_id}
                ELSE fallbacks
    /\ requests' = <<>>
    /\ last_response' = <<>>
    /\ UNCHANGED outside_labels

\* label_cache.resolve_batch(entity_ids)
ResolveBatch(entity_ids) ==
    /\ calls < MaxCalls
    /\ calls' = calls + 1
    /\ LET chunks == Chunks(Needed(cache, entity_ids))
       IN  \E failed \in SUBSET DOMAIN chunks :
           \E data \in [SeqSet(Needed(cache, entity_ids)) ->
                            EntityDatas \cup {Absent}] :
              /\ cache' = resolve_batch(cache, entity_ids, failed, data)
              /\ requests' = chunks
              /\ last_response' =
                    [eid \in { x \in DOMAIN data \ FailedIds(chunks, failed) :
                                 data[x].status = "ok" } |-> data[eid]]
              /\ last_call' =
                    [NoCall EXCEPT !.op = "resolve_batch", !.ids = entity_ids,
                        !.failed = failed]
              /\ fallbacks' = fallbacks \cup FailedIds(chunks, failed)
    /\ UNCHANGED outside_labels

\* label_cache.prime(entity_id, label, description)
Prime(entity_id, description) ==
    /\ calls < MaxCalls
    /\ calls' = calls + 1
    /\ cache' = prime(cache, entity_id, PrimedLabel, description)
    /\ last_call' =
          [NoCall EXCEPT !.op = "prime", !.ids = {entity_id},
              !.label = PrimedLabel, !.description = description]
    /\ fallbacks' = fallbacks \ {entity_id}
    /\ requests' = <<>>
    /\ last_response' = <<>>
    /\ UNCHANGED outside_labels

LNext ==
    \/ \E entity_id \in EntityIds : Resolve(entity_id)
    \/ \E entity_id \in EntityIds : ResolveDescription(entity_id)
    \/ \E entity_ids \in SUBSET EntityIds : ResolveBatch(entity_ids)
    \/ \E entity_id \in EntityIds :
       \E description \in {NoneText, PrimedDescription} :
          Prime(entity_id, description)

LabelsIdle ==
    /\ cache = EmptyCache
    /\ requests = <<>>
    /\ last_response = <<>>
    /\ last_call = NoCall
    /\ calls = 0
    /\ fallbacks = {}

\* ------------------------------------------------------------------ grouping

Users == {"alice", "bob"}

\* Edits as group_edits reads them: identified by position, with the title
\* and the user that make their key.
EditLists ==
    UNION { { [i \in 1..n |-> [rcid |-> i, title |-> t[i], user |-> u[i]]] :
                t \in [1..n -> Titles], u \in [1..n -> Users] } :
            n \in 0..MaxGroupEdits }

\* key = (edit["title"], edit["user"])
Key(edit) == <<edit.title, edit.user>>

\* One group per key, whatever lies between two edits of the key.
SplitByKey(rest, done, current_group) ==
    LET all == current_group \o rest
        keys == { Key(all[i]) : i \in DOMAIN all }
        FirstAt(k) == CHOOSE i \in DOMAIN all :
                         Key(all[i]) = k /\ \A j \in 1..(i - 1) : Key(all[j]) # k
        RECURSIVE InOrder(_)
        InOrder(ks) ==
            IF ks = {} THEN <<>>
            ELSE LET k == CHOOSE x \in ks :
                             \A y \in ks : FirstAt(x) <= FirstAt(y)
                 IN  <<SelectSeq(all, LAMBDA e : Key(e) = k)>>
                        \o InOrder(ks \ {k})
    IN  InOrder(keys)

\* The loop over edits[1:]: current_key is the key of current_group.
RECURSIVE Split(_, _, _)
Split(rest, done, current_group) ==
    IF rest = <<>> THEN Append(done, current_group)
    ELSE IF Key(Head(rest)) = Key(current_group[1])
    THEN Split(Tail(rest), done, Append(current_group, Head(rest)))
    ELSE Split(Tail(rest), Append(done, current_group), <<Head(rest)>>)

\* group_id, group_seq and group_size written on every edit.
Annotate(gs) ==
    [g \in DOMAIN gs |->
        [i \in DOMAIN gs[g] |->
            [rcid |-> gs[g][i].rcid, title |-> gs[g][i].title,
             user |-> gs[g][i].user, group_id |-> g - 1,
             group_seq |-> i - 1, group_size |-> Len(gs[g])]]]

group_edits(es) ==
    IF es = <<>> THEN <<>>
    ELSE Annotate(Split(Tail(es), <<>>, <<Head(es)>>))

GroupsStart ==
    /\ group_input \in EditLists
    /\ groups = <<>>
    /\ grouped = FALSE

\* groups = group_edits(edits)
GroupEdits ==
    /\ ~grouped
    /\ groups' = group_edits(group_input)
    /\ grouped' = TRUE
    /\ UNCHANGED group_input
    /\ UNCHANGED outside_groups

GNext == GroupEdits

GroupsIdle ==
    /\ group_input = <<>>
    /\ groups = <<>>
    /\ grouped = FALSE

\* ----------------------------------------------------------------- enrichment

\* The property of the group's edit summaries, and the item they edit.
EditedProperty == "P31"
EditedItem == "Q1"

RevIds == {100, 200, 300}

\* A claim of the edited property with an item as value.
ItemClaim(value) ==
    [ id |-> "s1",
      mainsnak |-> [type |-> "wikibase-entityid", value |-> value,
                    unit |-> "none"],
      rank |-> "normal", references |-> <<>>, qualifiers |-> {} ]

\* What Special:EntityData answers for a revision: an error, or an entity
\* with an English label and these claims of the edited property.
RevisionDatas ==
    { [status |-> "failed", claims |-> <<>>],
      [status |-> "ok", claims |-> <<>>],
      [status |-> "ok", claims |-> <<ItemClaim("Q42")>>] }

\* The operations of the group's edit summaries; "None" when the summary
\* does not parse. A parsed summary names EditedProperty and the value Q5.
GroupOperations == {"None", "wbsetclaim-update", "wbremoveclaims-remove"}

GroupEdit ==
    { e \in [revid : RevIds, old_revid : RevIds, parsed : GroupOperations] :
        e.old_revid < e.revid }

Groups == UNION { [1..n -> GroupEdit] : n \in 1..MaxGroupSize }

\* _collect_snak_ids
SnakIds(snak) ==
    IF snak.type = "wikibase-entityid" THEN {snak.value} ELSE {}

\* The reference blocks of the model hold URLs under one property.
ReferencePid == "P854"

\* The ids collect_entity_ids takes from one claim.
ClaimIds(claim) ==
    SnakIds(claim.mainsnak)
      \cup (IF claim.references # <<>> THEN {ReferencePid} ELSE {})
      \cup { q[1] : q \in claim.qualifiers }

collect_entity_ids(raw_claims) ==
    (IF raw_claims = <<>> THEN {} ELSE {EditedProperty})
      \cup UNION { ClaimIds(raw_claims[i]) : i \in DOMAIN raw_claims }

\* The ids serialize_statement hands to label_cache.resolve.
StatementResolves(claim) ==
    SnakIds(claim.mainsnak)
      \cup (IF claim.references # <<>> THEN {ReferencePid} ELSE {})
      \cup { q[1] : q \in claim.qualifiers }

\* The ids serialize_claims hands to label_cache.resolve.
ClaimsResolves(raw_claims) ==
    (IF raw_claims = <<>> THEN {} ELSE {EditedProperty})
      \cup UNION { StatementResolves(raw_claims[i]) : i \in DOMAIN raw_claims }

find_removed_claims(old_claims, new_claims) ==
    SelectSeq(old_claims, LAMBDA c : c.id \notin IdsOf(new_claims))

\* The raw claims compute_edit_diff serializes.
DiffClaims(old_claims, new_claims, operation, first) ==
    LET diff_type == OPERATION_TO_DIFF_TYPE(operation)
        added_ids == IdsOf(new_claims) \ IdsOf(old_claims)
        removed_ids == IdsOf(old_claims) \ IdsOf(new_claims)
        common_ids == IdsOf(old_claims) \cap IdsOf(new_claims)
    IN  IF diff_type = "statement_added"
        THEN IF added_ids # {}
             THEN {ById(new_claims, NextIter(added_ids, first))} ELSE {}
        ELSE IF diff_type = "statement_removed"
        THEN IF removed_ids # {}
             THEN {ById(old_claims, NextIter(removed_ids, first))} ELSE {}
        ELSE IF common_ids # {}
        THEN {ById(old_claims, NextIter(common_ids, first)),
              ById(new_claims, NextIter(common_ids, first))}
        ELSE IF new_claims # <<>> THEN {Head(new_claims)} ELSE {}

\* The ids compute_edit_diff hands to label_cache.resolve.
DiffResolves(old_claims, new_claims, operation, first) ==
    IF operation = "None" THEN {}
    ELSE {EditedProperty}
           \cup UNION { StatementResolves(c) :
                          c \in DiffClaims(old_claims, new_claims,
                                           operation, first) }

\* Both revisions of every edit, fetched edit by edit.
FetchPerEdit(g) ==
    LET RECURSIVE Walk(_)
        Walk(i) == IF i > Len(g) THEN <<>>
                   ELSE <<g[i].old_revid, g[i].revid>> \o Walk(i + 1)
    IN  Walk(1)

\* The revision ids of the group, each once, in the order they are fetched:
\* sorted(revids).
FetchOrder(g) ==
    LET revids == { g[i].revid : i \in DOMAIN g }
                    \cup { g[i].old_revid : i \in DOMAIN g }
    IN  CHOOSE s \in [1..Cardinality(revids) -> revids] :
            \A i, j \in DOMAIN s : i < j => s[i] < s[j]

\* The ids handed to resolve_batch.
AllIds(g, rev_cache) ==
    UNION { collect_entity_ids(rev_cache[r].claims) :
              r \in { x \in DOMAIN rev_cache : rev_cache[x].status = "ok" } }
      \cup (IF \E i \in DOMAIN g : g[i].parsed # "None"
            THEN {EditedProperty, "Q5"} ELSE {})

\* The loop over the edits of the group, from edit i on: known holds the ids
\* in the cache, missed the ids serialization found missing from it. The
\* revisions of the model hold at most one statement, "s1", so the sets
\* compute_edit_diff iterates have one order.
RECURSIVE EnrichLoop(_, _, _, _, _, _)
EnrichLoop(g, rev_cache, shared_item, i, known, acc) ==
    IF i > Len(g) THEN [acc EXCEPT !.known = known]
    ELSE
    LET edit == g[i]
        parsed == edit.parsed
        new_revision == rev_cache[edit.revid]
        old_revision == rev_cache[edit.old_revid]
        \* parsed labels: resolve(property), resolve(value_raw)
        known1 == IF parsed # "None"
                  THEN known \cup {EditedProperty, "Q5"} ELSE known
        diff_ids == IF new_revision.status = "ok" /\ old_revision.status = "ok"
                    THEN DiffResolves(old_revision.claims, new_revision.claims,
                                      parsed, "s1")
                    ELSE {}
        removed == IF /\ parsed = "wbremoveclaims-remove"
                      /\ new_revision.status = "ok" /\ old_revision.status = "ok"
                   THEN find_removed_claims(old_revision.claims,
                                            new_revision.claims)
                   ELSE <<>>
        removed_ids == IF removed # <<>>
                       THEN StatementResolves(Head(removed)) ELSE {}
        result ==
            IF new_revision.status # "ok"
            THEN [item |-> "error", edit_diff |-> "error",
                  removed_claim |-> "None"]
            ELSE [item |-> shared_item,
                  edit_diff |-> IF old_revision.status # "ok" THEN "partial"
                                ELSE IF parsed = "None" THEN "None"
                                ELSE "diff",
                  removed_claim |->
                      IF parsed # "wbremoveclaims-remove" THEN "None"
                      ELSE IF old_revision.status # "ok" THEN "error"
                      ELSE IF removed # <<>> THEN "claim" ELSE "None"]
    IN  EnrichLoop(g, rev_cache, shared_item, i + 1,
                   known1 \cup diff_ids \cup removed_ids,
                   [missed |-> acc.missed
                                 \cup ((diff_ids \cup removed_ids) \ known1),
                    results |-> Append(acc.results, result),
                    known |-> {}])

\* enrich_edit_group up to its return: failed and data are what the batch
\* endpoint does.
enrich_edit_group(g, entity_store, c, failed, data) ==
    LET rev_cache == [r \in SeqSet(FetchOrder(g)) |-> entity_store[r]]
        fetched_ok == { r \in DOMAIN rev_cache : rev_cache[r].status = "ok" }
        primed == IF fetched_ok # {}
                  THEN prime(c, EditedItem, LabelText(EditedItem, "en"),
                             NoneText)
                  ELSE c
        batched == resolve_batch(primed, AllIds(g, rev_cache), failed, data)
        latest_revid == CHOOSE r \in { g[i].revid : i \in DOMAIN g } :
                           \A i \in DOMAIN g : g[i].revid <= r
        shared_ids == IF rev_cache[latest_revid].status = "ok"
                      THEN ClaimsResolves(rev_cache[latest_revid].claims)
                      ELSE {}
        shared_item == IF rev_cache[latest_revid].status = "ok"
                       THEN "context" ELSE "error"
        loop == EnrichLoop(g, rev_cache, shared_item, 1,
                           DOMAIN batched \cup shared_ids,
                           [missed |-> shared_ids \ DOMAIN batched,
                            results |-> <<>>,
                            known |-> {}])
    IN  [fetched |-> FetchOrder(g),
         batched |-> batched,
         missed |-> loop.missed,
         known |-> loop.known,
         results |-> loop.results]

\* The caches an enrichment pass may be handed: a new one, or one that an
\* earlier group left the edited property in.
StartCaches ==
    { EmptyCache,
      Put(EmptyCache, EditedProperty,
          [label |-> LabelText(EditedProperty, "en"),
           description |-> NoneText]) }

EnrichStart ==
    /\ group \in Groups
    /\ store \in [RevIds -> RevisionDatas]
    /\ label_cache \in StartCaches
    /\ fetch_log = <<>>
    /\ lookups = {}
    /\ results = <<>>
    /\ enriched = FALSE

\* enrich_edit_group(group, label_cache)
EnrichEditGroup ==
    /\ ~enriched
    /\ LET rev_cache == [r \in SeqSet(FetchOrder(group)) |-> store[r]]
           primed == IF \E r \in DOMAIN rev_cache : rev_cache[r].status = "ok"
                     THEN prime(label_cache, EditedItem,
                                LabelText(EditedItem, "en"), NoneText)
                     ELSE label_cache
           needed == Needed(primed, AllIds(group, rev_cache))
       IN  \E failed \in SUBSET DOMAIN Chunks(needed) :
           \E data \in [SeqSet(needed) ->
                           {[status |-> "ok", labels |-> {"en"},
                             description |-> TRUE], Absent}] :
           \E out \in {enrich_edit_group(group, store, label_cache,
                                         failed, data)} :
           \E page \in IF out.known = DOMAIN out.batched THEN {Absent}
                        ELSE {[status |-> "ok", labels |-> {"en"},
                               description |-> TRUE], Failure} :
                  /\ fetch_log' = out.fetched
                  /\ lookups' = out.missed
                  /\ results' = out.results
                  /\ label_cache' =
                        [x \in out.known |->
                            IF x \in DOMAIN out.batched THEN out.batched[x]
                            ELSE PageEntry(x, page)]
    /\ enriched' = TRUE
    /\ UNCHANGED <<group, store>>
    /\ UNCHANGED outside_enrich

NNext == EnrichEditGroup

EnrichIdle ==
    /\ group = <<>>
    /\ store = <<>>
    /\ label_cache = EmptyCache
    /\ fetch_log = <<>>
    /\ lookups = {}
    /\ results = <<>>
    /\ enriched = FALSE

\* ------------------------------------------------------ verification question

\* The claim lists of the edits a question is made for: their statements
\* differ from a plain item-valued one in one field at most.
QuestionClaimLists ==
    { l \in ClaimLists :
        \A i \in DOMAIN l :
            Cardinality({ f \in {"mainsnak", "rank", "references",
                                 "qualifiers"} :
                            l[i][f] # OtherClaim[f] }) <= 1 }

FetchOutcomes == {"ok", "new_failed", "old_failed"}

\* edit["edit_diff"]: not set yet, what compute_edit_diff returned, or an
\* error record, which has no "type".
UnsetDiff == [state |-> "unset", value |-> NoDiff]
ReturnedDiff(diff) == [state |-> "returned", value |-> diff]
ErrorDiff == [state |-> "error", value |-> NoDiff]

\* The diff types _build_question has a template for.
TemplateKinds ==
    { "statement_removed", "statement_added", "value_changed",
      "reference_added", "reference_changed", "reference_removed",
      "qualifier_added", "qualifier_changed", "qualifier_removed",
      "rank_changed" }

\* The template chosen from the operation alone.
build_question_by_operation(operation, diff) ==
    IF OPERATION_TO_DIFF_TYPE(operation) \in TemplateKinds
    THEN OPERATION_TO_DIFF_TYPE(operation)
    ELSE "fallback"

\* The template _build_question answers with.
build_question(operation, diff) ==
    LET diff_type ==
            IF diff.state = "returned" /\ diff.value.type # "None"
            THEN diff.value.type
            ELSE OPERATION_TO_DIFF_TYPE(operation)
    IN  IF diff_type \in TemplateKinds THEN diff_type ELSE "fallback"

make_verification_question(parsed, diff) ==
    IF parsed = "None" THEN "None" ELSE build_question(parsed, diff)

QuestionStart ==
    /\ q_parsed \in Operations \cup {"None"}
    /\ q_old \in QuestionClaimLists
    /\ q_new \in QuestionClaimLists
    /\ q_fetch \in FetchOutcomes
    /\ q_diff = UnsetDiff
    /\ question = "unasked"

\* enrich_edit(edit, label_cache), as far as edit["edit_diff"] goes
EnrichEdit ==
    /\ q_diff = UnsetDiff
    /\ \E first \in StatementIds :
          q_diff' = IF q_fetch = "ok"
                    THEN ReturnedDiff(compute_edit_diff(q_old, q_new,
                                                        q_parsed, first))
                    ELSE ErrorDiff
    /\ UNCHANGED <<q_parsed, q_old, q_new, q_fetch, question>>
    /\ UNCHANGED outside_question

\* verification_question = make_verification_question(edit)
MakeVerificationQuestion ==
    /\ q_diff # UnsetDiff
    /\ question = "unasked"
    /\ question' = make_verification_question(q_parsed, q_diff)
    /\ UNCHANGED <<q_parsed, q_old, q_new, q_fetch, q_diff>>
    /\ UNCHANGED outside_question

QNext ==
    \/ EnrichEdit
    \/ MakeVerificationQuestion

QuestionIdle ==
    /\ q_parsed = "None"
    /\ q_old = <<>>
    /\ q_new = <<>>
    /\ q_fetch = "ok"
    /\ q_diff = UnsetDiff
    /\ question = "unasked"

\* ---------------------------------------------------------- specifications

\* The session variables while the driver is modelled, and the reverse.
SessionIdle ==
    /\ phase = "idle"
    /\ cancel_event = FALSE
    /\ messages = <<>>
    /\ turn = 0
    /\ total_prompt_tokens = 0
    /\ total_completion_tokens = 0
    /\ response_ids = <<>>
    /\ finish_status = "none"
    /\ turns = None
    /\ verdict_content = "unset"
    /\ verdict_dict = "unset"
    /\ vrd_prompt_tokens = 0
    /\ vrd_completion_tokens = 0
    /\ cost_idx = 0
    /\ total_cost_usd = None
    /\ total_prompt_tokens_authoritative = None
    /\ total_completion_tokens_authoritative = None
    /\ verdict_record = NoRecord
    /\ inference_calls = 0
    /\ cost_calls = 0
    /\ calls_after_cancelled = 0
    /\ inv_calls_after_set = 0
    /\ inv_done_after_set = 0
    /\ last_finish_reason = "none"
    /\ last_tool_calls = <<>>
    /\ raised_by = "none"
    /\ id_usage = <<>>
    /\ accounted = NoTokens

DriverIdle ==
    /\ edits = <<>>
    /\ pairs = <<>>
    /\ loaded = {}
    /\ completed = {}
    /\ checkpoint_file = {}
    /\ verdict_writes = <<>>
    /\ checkpoint_writes = <<>>
    /\ pos = 1
    /\ driver = "idle"
    /\ skipped_count = 0
    /\ timeout_count = 0
    /\ error_count = 0
    /\ completed_count = 0
    /\ wstate = [p \in Positions |-> "unstarted"]
    /\ cancel = [p \in Positions |-> FALSE]
    /\ returned = [p \in Positions |-> "none"]
    /\ dispatched = <<>>
    /\ timeouts = 0
    /\ write_failures = 0

\* Everything but the session, the driver and the checkpoint file at rest.
RestIdle ==
    /\ ToolsIdle
    /\ VerdictsIdle
    /\ OrderIdle
    /\ DiffIdle
    /\ LabelsIdle
    /\ GroupsIdle
    /\ EnrichIdle
    /\ QuestionIdle

SInit == SessionStart /\ DriverIdle /\ CheckpointIdle /\ RestIdle

SpecSession == SInit /\ [][SNext]_vars

Init == DriverStart /\ SessionIdle /\ CheckpointIdle /\ RestIdle

CInit == CheckpointStart /\ SessionIdle /\ DriverIdle /\ RestIdle

SpecCheckpoint == CInit /\ [][CNext]_vars

Next ==
    \/ Skip
    \/ Dispatch
    \/ JoinFinished
    \/ JoinTimeout
    \/ Finish
    \/ \E p \in Positions : WorkerObserveCancel(p)
    \/ \E p \in Positions : WorkerEnd(p)

Spec == Init /\ [][Next]_vars

\* The driver thread keeps running: main's loop and run_with_timeout take
\* their next step whenever they can. Nothing makes a worker end, except
\* that the workers joined after the last join the model lets expire are
\* workers that end.
DriverStep ==
    \/ Skip
    \/ Dispatch
    \/ JoinFinished
    \/ JoinTimeout
    \/ Finish

LastWorkerEnds ==
    /\ driver = "join"
    /\ timeouts = MaxTimeouts
    /\ WorkerEnd(pos)

\* Runs over snapshots of distinct edits, started with an empty checkpoint
\* or with one that holds the first pair.
LiveInit ==
    /\ Init
    /\ \A i, j \in DOMAIN edits : i # j => edits[i] # edits[j]
    /\ loaded \in SUBSET {<<1, Models[1]>>}

SpecLive ==
    /\ LiveInit
    /\ [][Next]_vars
    /\ WF_vars(DriverStep)
    /\ WF_vars(LastWorkerEnds)

\* The driver with the tool calls of its workers.
NextWorkers ==
    \/ Next
    \/ \E p \in Positions : WorkerRateLimit(p)

SpecWorkers == Init /\ [][NextWorkers]_vars

VInit ==
    /\ VerdictsStart
    /\ SessionIdle /\ DriverIdle /\ CheckpointIdle /\ ToolsIdle /\ OrderIdle
    /\ DiffIdle
    /\ LabelsIdle
    /\ GroupsIdle
    /\ EnrichIdle
    /\ QuestionIdle

SpecVerdicts == VInit /\ [][VNext]_vars

OInit ==
    /\ OrderStart
    /\ SessionIdle /\ DriverIdle /\ CheckpointIdle /\ ToolsIdle /\ VerdictsIdle
    /\ DiffIdle
    /\ LabelsIdle
    /\ GroupsIdle
    /\ EnrichIdle
    /\ QuestionIdle

SpecOrder == OInit /\ [][ONext]_vars

DInit ==
    /\ DiffStart
    /\ SessionIdle /\ DriverIdle /\ CheckpointIdle /\ ToolsIdle /\ VerdictsIdle
    /\ OrderIdle
    /\ LabelsIdle
    /\ GroupsIdle
    /\ EnrichIdle
    /\ QuestionIdle

SpecDiff == DInit /\ [][DNext]_vars

LInit ==
    /\ LabelsStart
    /\ SessionIdle /\ DriverIdle /\ CheckpointIdle /\ ToolsIdle /\ VerdictsIdle
    /\ OrderIdle
    /\ DiffIdle
    /\ GroupsIdle
    /\ EnrichIdle
    /\ QuestionIdle

SpecLabels == LInit /\ [][LNext]_vars

GInit ==
    /\ GroupsStart
    /\ SessionIdle /\ DriverIdle /\ CheckpointIdle /\ ToolsIdle /\ VerdictsIdle
    /\ OrderIdle
    /\ DiffIdle
    /\ LabelsIdle
    /\ EnrichIdle
    /\ QuestionIdle

SpecGroups == GInit /\ [][GNext]_vars

NInit ==
    /\ EnrichStart
    /\ SessionIdle /\ DriverIdle /\ CheckpointIdle /\ ToolsIdle /\ VerdictsIdle
    /\ OrderIdle
    /\ DiffIdle
    /\ LabelsIdle
    /\ GroupsIdle
    /\ QuestionIdle

SpecEnrich == NInit /\ [][NNext]_vars

QInit ==
    /\ QuestionStart
    /\ SessionIdle /\ DriverIdle /\ CheckpointIdle /\ ToolsIdle /\ VerdictsIdle
    /\ OrderIdle
    /\ DiffIdle
    /\ LabelsIdle
    /\ GroupsIdle
    /\ EnrichIdle

SpecQuestion == QInit /\ [][QNext]_vars

\* ------------------------------------------------------------------ claims
\* Driver claims are checked under Spec, session claims under SpecSession.

\* Positions of the execution order the loop has decided on so far.
Handled == IF driver = "join" THEN pos ELSE pos - 1

NotLoaded(q) == pairs[q] \notin loaded

\* The pair of position q was recorded (completed.add) at an earlier position
\* of this run.
RecordedBefore(q) ==
    \E k \in 1..Len(verdict_writes) :
       verdict_writes[k].pos < q /\ verdict_writes[k].pair = pairs[q]

Fresh(q) == NotLoaded(q) /\ ~RecordedBefore(q)

\* A pair of the loaded set gets no worker (so no inference call), no verdict
\* file and no checkpoint write.
LoadedPairsUntouched ==
    \A p \in 1..total :
       pairs[p] \in loaded =>
          /\ wstate[p] = "unstarted"
          /\ returned[p] = "none"
          /\ \A k \in 1..Len(verdict_writes) : verdict_writes[k].pos # p
          /\ \A k \in 1..Len(checkpoint_writes) : checkpoint_writes[k] # p

\* C1 as claimed: a pair that is in the checkpoint set loaded at start-up is
\* left untouched, and the positions whose pair is not in that set are
\* dispatched, each one, in execution order.
C1_SkipLoadedDispatchRest ==
    /\ LoadedPairsUntouched
    /\ dispatched = SelectSeq([q \in 1..Handled |-> q], NotLoaded)

\* C1 amended: a pair that is in the checkpoint set loaded at start-up is
\* left untouched, and the positions whose pair is neither in that set nor
\* recorded at an earlier position of this run are dispatched, each one, in
\* execution order.
C1_SkipCompletedDispatchRest ==
    /\ LoadedPairsUntouched
    /\ dispatched = SelectSeq([q \in 1..Handled |-> q], Fresh)

\* A finished run that skipped a loaded pair, dispatched a later one and
\* skipped a repetition of a pair it had recorded.
C1_Witness ==
    /\ driver = "done"
    /\ \E p, q \in 1..total :
          /\ p < q
          /\ pairs[p] \in loaded
          /\ pairs[q] \notin loaded
          /\ returned[q] # "none"
    /\ \E q, r \in 1..total :
          /\ q < r
          /\ pairs[q] = pairs[r]
          /\ returned[q] = "result"
          /\ returned[r] = "none"
          /\ pairs[r] \notin loaded

\* C2: once the driver has moved past a dispatched pair, whatever the unit's
\* outcome (result, timeout, exception), the pair is in the completed set and
\* in the checkpoint file. Stated for runs in which no file write failed.
C2_RecordedAfterAnyOutcome ==
    \A p \in 1..total :
       (p < pos /\ returned[p] # "none" /\ write_failures = 0) =>
          /\ pairs[p] \in completed
          /\ pairs[p] \in checkpoint_file

\* C5 as claimed: run_with_timeout either times out with the signal set, or
\* the worker ended within the budget and it returns (result, False) with the
\* signal never set.
C5_TimeoutOrResult ==
    \A p \in Positions :
       returned[p] # "none" =>
          IF returned[p] = "timed_out"
          THEN cancel[p]
          ELSE returned[p] = "result" /\ ~cancel[p]

\* C5 amended: a join that times out finds the worker alive, sets its
\* signal and returns (None, True) leaving the worker running; a worker that
\* ended within the budget makes run_with_timeout return (result, False) if
\* it returned and re-raise its exception if it raised, and in both cases the
\* signal is never set.
C5_TimeoutOrResultOrReraise ==
    /\ [](\A p \in Positions :
            /\ returned[p] = "timed_out" => cancel[p]
            /\ returned[p] = "result" => wstate[p] = "returned" /\ ~cancel[p]
            /\ returned[p] = "raised" => wstate[p] = "raised" /\ ~cancel[p])
    /\ [][\A p \in Positions :
             (returned[p] = "none" /\ returned'[p] = "timed_out") =>
                 /\ IsAlive(p)
                 /\ wstate'[p] = wstate[p]
                 /\ pos' = pos + 1]_vars

\* One unit timed out with its worker still running, another returned.
C5_Witness ==
    \E p, q \in Positions :
       /\ returned[p] = "timed_out" /\ IsAlive(p) /\ cancel[p]
       /\ returned[q] = "result" /\ ~cancel[q]

\* C3: with the signal already set when the investigation starts, the first
\* turn boundary returns status cancelled with turns = 0, no inference call
\* made, zero token counts, no generation id and the transcript as given.
C3_PreSetCancel ==
    [][(phase = "inv_check" /\ turn = 0 /\ cancel_event) =>
          /\ phase' = "inv_returned"
          /\ finish_status' = "cancelled"
          /\ turns' = 0
          /\ inference_calls' = 0
          /\ total_prompt_tokens' = 0
          /\ total_completion_tokens' = 0
          /\ response_ids' = <<>>
          /\ messages' = initial_messages]_vars

\* The investigation has returned cancelled before its first turn.
C3_Witness ==
    /\ phase = "inv_returned"
    /\ finish_status = "cancelled"
    /\ turns = 0
    /\ inference_calls = 0

\* C4: a session whose investigation stopped as cancelled makes no call
\* afterwards, neither to the inference endpoint nor to the cost endpoint.
C4_NoCallAfterCancelled == calls_after_cancelled = 0

\* C6: after the signal is set no investigation call is started; at most the
\* one call outstanding at that moment completes; and a turn boundary reached
\* with the signal set returns cancelled without a call.
C6_NoNewTurnAfterSet ==
    /\ [](inv_calls_after_set = 0 /\ inv_done_after_set <= 1)
    /\ [][(phase = "inv_check" /\ cancel_event) =>
             /\ phase' = "inv_returned"
             /\ finish_status' = "cancelled"
             /\ turns' = turn
             /\ inference_calls' = inference_calls]_vars

\* The signal came during a turn: its call completed afterwards and the next
\* boundary returned cancelled.
C6_Witness ==
    /\ phase = "inv_returned"
    /\ finish_status = "cancelled"
    /\ turns >= 1
    /\ inv_done_after_set = 1

\* C7: the investigation makes at most MAX_TURNS inference calls; when every
\* response was tool_calls (and no cancellation came) it returns max_turns
\* with turns = MAX_TURNS after exactly MAX_TURNS calls.
C7_TurnCap ==
    /\ phase \in {"inv_check", "inv_call", "inv_returned"} =>
          inference_calls <= MAX_TURNS
    /\ finish_status = "max_turns" => turns = MAX_TURNS
    /\ (phase = "inv_returned" /\ last_finish_reason = "tool_calls"
          /\ finish_status # "cancelled") =>
          /\ finish_status = "max_turns"
          /\ turns = MAX_TURNS
          /\ inference_calls = MAX_TURNS

C7_Witness ==
    /\ phase = "inv_returned"
    /\ finish_status = "max_turns"
    /\ inference_calls = MAX_TURNS

\* C8: a response whose finish_reason is not tool_calls ends the
\* investigation at once: status stop for stop, length for length, stop for
\* anything else, that response's content appended as the last assistant
\* message, no further turn; the returned status is one of the four.
C8_TerminalResponse ==
    /\ last_finish_reason \notin {"none", "tool_calls"} =>
          phase \notin {"inv_check", "inv_call"}
    /\ (phase = "inv_returned" /\ last_finish_reason # "tool_calls"
          /\ finish_status # "cancelled") =>
          /\ finish_status =
                (CASE last_finish_reason = "stop" -> "stop"
                   [] last_finish_reason = "length" -> "length"
                   [] OTHER -> "stop")
          /\ messages[Len(messages)] =
                Msg("assistant", ContentOf(last_finish_reason), <<>>, None)
          /\ turns = turn + 1
          /\ inference_calls = turns
    /\ phase = "inv_returned" =>
          finish_status \in {"stop", "length", "max_turns", "cancelled"}

\* An unexpected finish reason ended the investigation as stop.
C8_Witness ==
    /\ phase = "inv_returned"
    /\ last_finish_reason = "content_filter"
    /\ finish_status = "stop"
    /\ turns = 2

\* A tool call that cannot be served: unknown tool name, arguments that are
\* not valid JSON, or a tool function that raises.
Unservable(tc) ==
    \/ tc.name \notin {"web_search", "web_fetch"}
    \/ tc.arguments = "bad_json"
    \/ tc.tool = "raises"

ErrorStrings ==
    {"error: Failed to parse tool call arguments as JSON",
     "error: Tool execution failed",
     "error: Unknown tool"}

\* C9: no exception leaves dispatch_tool_call; an unservable tool call gets
\* an error string as its tool message, and the loop goes on to the next turn
\* boundary (or has used up its turns).
C9_DispatchNeverRaises ==
    /\ [](raised_by # "dispatch")
    /\ []((phase = "inv_check" /\ last_finish_reason = "tool_calls") =>
            \A k \in 1..Len(last_tool_calls) :
               LET m == messages[Len(messages) - Len(last_tool_calls) + k]
               IN /\ m.role = "tool"
                  /\ m.tool_call_id = last_tool_calls[k].id
                  /\ Unservable(last_tool_calls[k]) => m.content \in ErrorStrings)
    /\ [][(phase = "inv_call" /\ phase' # "inv_call"
             /\ last_finish_reason' = "tool_calls" /\ raised_by' # "inference") =>
             /\ turn' = turn + 1
             /\ phase' \in {"inv_check", "inv_returned"}
             /\ phase' = "inv_returned" => finish_status' = "max_turns"]_vars

\* The turn after a response that asked for three unservable tool calls.
C9_Witness ==
    /\ phase = "inv_check"
    /\ turn = 1
    /\ Len(last_tool_calls) = 3
    /\ \A k \in 1..3 : Unservable(last_tool_calls[k])

\* C10: empty or invalid verdict content gives a null verdict, and the record
\* returned has verdict, rationale null and no sources, with the finish
\* status, the turns and the token counts of the session.
C10_NullVerdict ==
    (verdict_content \in {"empty", "invalid_json"}) =>
       /\ verdict_dict = "None"
       /\ raised_by # "inference"
       /\ phase = "returned" =>
             /\ verdict_record.verdict = "None"
             /\ verdict_record.rationale = "None"
             /\ verdict_record.sources = <<>>
             /\ verdict_record.finish_status = finish_status
             /\ verdict_record.finish_status \in
                   {"stop", "length", "max_turns", "cancelled"}
             /\ verdict_record.turns = turns
             /\ verdict_record.prompt_tokens =
                   IF total_prompt_tokens_authoritative \notin {None, 0}
                   THEN total_prompt_tokens_authoritative
                   ELSE total_prompt_tokens + vrd_prompt_tokens
             /\ verdict_record.completion_tokens =
                   IF total_completion_tokens_authoritative \notin {None, 0}
                   THEN total_completion_tokens_authoritative
                   ELSE total_completion_tokens + vrd_completion_tokens

\* A record returned after an investigation that stopped and a verdict
\* response that was not JSON.
C10_Witness ==
    /\ phase = "returned"
    /\ verdict_content = "invalid_json"
    /\ finish_status = "stop"
    /\ verdict_record.turns = 2

\* C11: when the record is returned every generation id of both phases has
\* been looked up, and the recorded prompt and completion totals account for
\* every call of the session: the priced counts of each id that was priced,
\* the SDK-reported counts of each id that was not. Stated for sessions in
\* which every response carried a generation id.
C11_TotalsAccountForAllCalls ==
    (phase = "returned" /\ Len(response_ids) = inference_calls) =>
       /\ cost_calls = Len(response_ids)
       /\ verdict_record.prompt_tokens = accounted.prompt_tokens
       /\ verdict_record.completion_tokens = accounted.completion_tokens

\* C12: a load that follows save_checkpoint(S) returns exactly S; saving
\* what was loaded leaves a file that holds the same set (and rewrites a
\* saved file as it was); loading a missing or empty file returns the empty set.
C12_CheckpointRoundTrip ==
    /\ [](current =>
            /\ state_file.kind = "document" => got = saved
            /\ state_file.kind \in {"missing", "empty"} => got = {})
    /\ [][(current /\ current' /\ state_file' # state_file) =>
             /\ load_checkpoint(state_file') = got
             /\ state_file.kind # "document"]_vars

\* A set of pairs that share an rcid and pairs that share a model was saved
\* and loaded back.
C12_Witness ==
    /\ current
    /\ state_file.kind = "document"
    /\ Cardinality(saved) = 3
    /\ got = saved

\* The driver has moved past position p, whose verdict file or checkpoint
\* write failed.
WriteFailedAt(p) ==
    /\ p < pos
    /\ returned[p] \in {"result", "timed_out"}
    /\ \A k \in 1..Len(checkpoint_writes) : checkpoint_writes[k] # p

\* C13: once the verdict file or the checkpoint write of a pair has failed,
\* the batch halts: no later position is dispatched.
C13_WriteFailureHalts ==
    \A p \in 1..total :
       WriteFailedAt(p) => \A k \in 1..Len(dispatched) : dispatched[k] <= p

\* C14: the positions dispatched in a run are strictly increasing (none is
\* dispatched twice, whatever its outcome); a unit that raises leaves the
\* driver in its loop at the following position; and a finished run has
\* decided on every position, those after a unit that raised included.
C14_AtMostOnceAndGoOn ==
    /\ [](\A j, k \in 1..Len(dispatched) :
             j < k => dispatched[j] < dispatched[k])
    /\ [](driver = "done" =>
             /\ pos = total + 1
             /\ \A q \in 1..total :
                   \/ \E k \in 1..Len(dispatched) : dispatched[k] = q
                   \/ pairs[q] \in completed)
    /\ [][\A q \in Positions :
              (returned[q] = "none" /\ returned'[q] = "raised") =>
                 /\ pos' = q + 1
                 /\ driver' = "loop"]_vars

\* A finished run in which a unit raised, a unit timed out, and a later
\* position was dispatched after each.
C14_Witness ==
    /\ driver = "done"
    /\ \E p, q, r \in 1..total :
          /\ p < r /\ q < r
          /\ returned[p] = "raised"
          /\ returned[q] = "timed_out"
          /\ returned[r] # "none"

\* C15: a step that writes a verdict file or the checkpoint file is a step of
\* the driver thread (it leaves every worker where it was) and writes at most
\* one verdict file and the checkpoint at most once; a step of a worker,
\* abandoned or not, writes neither.
C15_DriverIsOnlyWriter ==
    [][/\ (verdict_writes' # verdict_writes
             \/ checkpoint_writes' # checkpoint_writes
             \/ checkpoint_file' # checkpoint_file) =>
            /\ driver = "join" /\ driver' = "loop"
            /\ wstate' = wstate
            /\ Len(verdict_writes') = Len(verdict_writes) + 1
            /\ verdict_writes'[Len(verdict_writes')].pos = pos
            /\ Len(checkpoint_writes') <= Len(checkpoint_writes) + 1
       /\ wstate' # wstate =>
            /\ checkpoint_file' = checkpoint_file
            /\ checkpoint_writes' = checkpoint_writes
            /\ verdict_writes' = verdict_writes]_vars

\* An abandoned worker has ended while a later pair, whose files the driver
\* wrote, was being processed or after it.
C15_Witness ==
    \E p, q \in 1..total :
       /\ p < q
       /\ returned[p] = "timed_out"
       /\ ~IsAlive(p)
       /\ \E k \in 1..Len(checkpoint_writes) : checkpoint_writes[k] = q

\* C16: the cancellation flag of a unit is written by the timer side only
\* (the driver thread inside run_with_timeout, at that unit), set once and
\* never cleared; and no other mutable state is touched by two workers that
\* are alive at the same time.
C16_OnlyTheFlagIsShared ==
    /\ [][\A p \in Positions :
             /\ cancel[p] => cancel'[p]
             /\ cancel'[p] # cancel[p] =>
                   (driver = "join" /\ pos = p /\ wstate' = wstate)]_vars
    /\ [](\A p, q \in Positions :
            (p # q /\ IsAlive(p) /\ IsAlive(q)) =>
               ~(p \in rate_limited /\ q \in rate_limited))

\* C17: the verdict of every pair handed to save_verdict is still held by a
\* file of its own: no file of one pair was overwritten by the file of
\* another, and there are as many files as pairs.
C17_OneFilePerPair ==
    /\ \A pair \in persisted :
          \E f \in verdict_dir : f.rcid = pair[1] /\ f.model = pair[2]
    /\ Cardinality(verdict_dir) = Cardinality(persisted)

\* Where the pair of the i-th edit and the j-th model stands in the order.
OrderIndex(i, j) == (i - 1) * Len(order_models) + j

\* C18: the list build_execution_order returns holds one entry per (edit,
\* model) combination, the pair of edit i and model j at the place that
\* puts it before the pair of edit k and model l iff i < k, or i = k and
\* j < l; it is empty when either input is empty.
C18_EditsOuterModelsInner ==
    order_built =>
       /\ Len(order_pairs) = Len(order_edits) * Len(order_models)
       /\ \A i \in 1..Len(order_edits), j \in 1..Len(order_models) :
             /\ OrderIndex(i, j) \in 1..Len(order_pairs)
             /\ order_pairs[OrderIndex(i, j)] = <<order_edits[i], order_models[j]>>
             /\ \A k \in 1..Len(order_edits), l \in 1..Len(order_models) :
                   OrderIndex(i, j) < OrderIndex(k, l)
                      <=> (i < k \/ (i = k /\ j < l))
       /\ (order_edits = <<>> \/ order_models = <<>>) => order_pairs = <<>>

\* An order was built from two different edits and two different models.
C18_Witness ==
    /\ order_built
    /\ Len(order_edits) = 2 /\ order_edits[1] # order_edits[2]
    /\ Len(order_models) = 2 /\ order_models[1] # order_models[2]
    /\ Len(order_pairs) = 4

\* Both serialized statements of the matched statement id are in the record.
BothPresent == edit_diff.old_value # NoStatement /\ edit_diff.new_value # NoStatement

\* The matched statement differs in its serialized reference list and in
\* nothing else.
OnlyReferencesDiffer ==
    /\ BothPresent
    /\ edit_diff.old_value.references # edit_diff.new_value.references
    /\ edit_diff.old_value.value = edit_diff.new_value.value
    /\ edit_diff.old_value.qualifiers = edit_diff.new_value.qualifiers
    /\ edit_diff.old_value.rank = edit_diff.new_value.rank

\* The reference kind that the emptiness of the two lists selects.
ReferenceKind(old_refs, new_refs) ==
    IF old_refs = <<>> /\ new_refs # <<>> THEN "reference_added"
    ELSE IF old_refs # <<>> /\ new_refs = <<>> THEN "reference_removed"
    ELSE "reference_changed"

\* The operation's table kind is value_changed, the only kind that
\* compute_edit_diff refines.
Refined == OPERATION_TO_DIFF_TYPE(parsed_edit) = "value_changed"

(* C19, as stated: for every parsed operation, when the matched statement
   differs only in its reference list, the kind is reference_added when the
   old list is empty and the new one is not, reference_removed in the
   reverse case, and reference_changed otherwise. *)
C19_ReferenceKindByEmptiness ==
    (diffed /\ parsed_edit # "None" /\ OnlyReferencesDiffer)
        => edit_diff.type =
              ReferenceKind(edit_diff.old_value.references,
                            edit_diff.new_value.references)

(* C19, amended: when the matched statement differs only in its reference
   list, the kind follows the emptiness of the two lists for the operations
   whose table kind is value_changed (wbsetclaim-update, wbsetclaimvalue),
   and is the table kind of the operation, unrefined, for every other
   operation. *)
C19_ReferenceKindWhenRefined ==
    (diffed /\ parsed_edit # "None" /\ OnlyReferencesDiffer)
        => edit_diff.type =
              IF Refined
              THEN ReferenceKind(edit_diff.old_value.references,
                                 edit_diff.new_value.references)
              ELSE OPERATION_TO_DIFF_TYPE(parsed_edit)

\* A wbsetclaim-update that gave a statement without references its first one.
C19_Witness ==
    /\ diffed
    /\ parsed_edit = "wbsetclaim-update"
    /\ OnlyReferencesDiffer
    /\ edit_diff.old_value.references = <<>>
    /\ edit_diff.type = "reference_added"

\* The serialized value of the matched statement changed.
ValueDiffers ==
    /\ BothPresent
    /\ edit_diff.old_value.value # edit_diff.new_value.value

(* C20, as stated: for every diff in which the value of the matched
   statement changed, whatever else changed at the same time, the kind is
   value_changed. *)
C20_ValueChangeWins ==
    (diffed /\ parsed_edit # "None" /\ ValueDiffers)
        => edit_diff.type = "value_changed"

(* C20, amended: when the value of the matched statement changed, the kind
   is value_changed, whatever else changed at the same time, for the
   operations whose table kind is value_changed; for every other operation
   it is the table kind of the operation. *)
C20_ValueChangeWinsWhenRefined ==
    (diffed /\ parsed_edit # "None" /\ ValueDiffers)
        => edit_diff.type =
              IF Refined THEN "value_changed"
              ELSE OPERATION_TO_DIFF_TYPE(parsed_edit)

\* A wbsetclaim-update that changed the value, the references, the
\* qualifiers and the rank of one statement at once.
C20_Witness ==
    /\ diffed
    /\ parsed_edit = "wbsetclaim-update"
    /\ ValueDiffers
    /\ edit_diff.old_value.references # edit_diff.new_value.references
    /\ edit_diff.old_value.qualifiers # edit_diff.new_value.qualifiers
    /\ edit_diff.old_value.rank # edit_diff.new_value.rank
    /\ edit_diff.type = "value_changed"

\* The kinds of a change to a statement that both snapshots hold.
ChangeKinds ==
    { "value_changed", "rank_changed",
      "reference_added", "reference_removed", "reference_changed",
      "qualifier_added", "qualifier_removed", "qualifier_changed" }

(* C21: every record compute_edit_diff returns has new_value alone when its
   type is statement_added, old_value alone when its type is
   statement_removed, and both when its type is one of the change kinds. *)
C21_ValuesPresentByType ==
    (diffed /\ parsed_edit # "None") =>
        /\ edit_diff.type = "statement_added" =>
              /\ edit_diff.old_value = NoStatement
              /\ edit_diff.new_value # NoStatement
        /\ edit_diff.type = "statement_removed" =>
              /\ edit_diff.old_value # NoStatement
              /\ edit_diff.new_value = NoStatement
        /\ edit_diff.type \in ChangeKinds => BothPresent

\* How many of the references, the qualifiers and the rank of the matched
\* statement differ between its two serialized forms.
FieldsDiffering ==
    (IF edit_diff.old_value.references # edit_diff.new_value.references
     THEN 1 ELSE 0)
    + (IF edit_diff.old_value.qualifiers # edit_diff.new_value.qualifiers
       THEN 1 ELSE 0)
    + (IF edit_diff.old_value.rank # edit_diff.new_value.rank THEN 1 ELSE 0)

\* The qualifier kind that the emptiness of the two mappings selects.
QualifierKind(old_quals, new_quals) ==
    IF old_quals = {} /\ new_quals # {} THEN "qualifier_added"
    ELSE IF old_quals # {} /\ new_quals = {} THEN "qualifier_removed"
    ELSE "qualifier_changed"

\* The kind of the one field that differs.
SingleFieldKind ==
    IF edit_diff.old_value.references # edit_diff.new_value.references
    THEN ReferenceKind(edit_diff.old_value.references,
                       edit_diff.new_value.references)
    ELSE IF edit_diff.old_value.qualifiers # edit_diff.new_value.qualifiers
    THEN QualifierKind(edit_diff.old_value.qualifiers,
                       edit_diff.new_value.qualifiers)
    ELSE "rank_changed"

(* C22: where the kind is refined and the value of the matched statement is
   unchanged, the kind stays value_changed when two or more of the
   references, the qualifiers and the rank differ, and is the reference_*,
   qualifier_* (by emptiness of old and new) or rank_changed kind of the one
   that differs when exactly one does. *)
C22_SeveralFieldsStayGeneric ==
    (diffed /\ Refined /\ BothPresent /\ ~ValueDiffers) =>
        /\ FieldsDiffering >= 2 => edit_diff.type = "value_changed"
        /\ FieldsDiffering = 1 => edit_diff.type = SingleFieldKind

\* A wbsetclaim-update that changed the references and the rank of a
\* statement and left its value alone.
C22_Witness ==
    /\ diffed
    /\ parsed_edit = "wbsetclaim-update"
    /\ BothPresent
    /\ ~ValueDiffers
    /\ edit_diff.old_value.references # edit_diff.new_value.references
    /\ edit_diff.old_value.rank # edit_diff.new_value.rank
    /\ edit_diff.old_value.qualifiers = edit_diff.new_value.qualifiers
    /\ edit_diff.type = "value_changed"

\* The call of this step is a resolve or a resolve_description of entity_id.
Looked(entity_id) ==
    /\ calls' = calls + 1
    /\ last_call'.op \in {"resolve", "resolve_description"}
    /\ last_call'.ids = {entity_id}

\* What a response entity gives resolve and resolve_description to return.
FromResponse(entity_id, entity_data, op) ==
    IF op = "resolve"
    THEN IF "en" \in entity_data.labels THEN LabelText(entity_id, "en")
         ELSE IdText(entity_id)
    ELSE IF entity_data.description THEN DescriptionText(entity_id)
         ELSE NoneText

(* C23: right after resolve_batch(ids), a resolve or resolve_description of
   an id that a response of the batch held makes no network call and returns
   the label or description of that response; a second resolve_batch with
   the same ids sends no request. *)
C23_BatchThenNoNetwork ==
    [][ last_call.op = "resolve_batch" =>
          /\ \A entity_id \in DOMAIN last_response :
                Looked(entity_id) =>
                   /\ last_call'.page_gets = 0
                   /\ last_call'.returned =
                         FromResponse(entity_id, last_response[entity_id],
                                      last_call'.op)
          /\ (/\ calls' = calls + 1
              /\ last_call'.op = "resolve_batch"
              /\ last_call'.ids = last_call.ids) => requests' = <<>>
      ]_vars

\* The label the selection policy picks for an entity with labels in langs.
SelectedLabel(entity_id, langs) ==
    IF "en" \in langs THEN LabelText(entity_id, "en")
    ELSE IF langs # {}
    THEN MarkedText(entity_id, CHOOSE lang \in langs : TRUE)
    ELSE IdText(entity_id)

(* C25: the label resolve returns for an entity it looked up, and the label
   resolve_batch caches for an entity of its response, is the English label
   when the entity has one, otherwise a label in another language marked
   with its language code, and the identifier only when the entity has no
   label at all. *)
C25_LabelSelection ==
    /\ (/\ last_call.op = "resolve"
        /\ last_call.page_gets = 1
        /\ last_call.page.status = "ok")
          => \A entity_id \in last_call.ids :
                last_call.returned =
                    SelectedLabel(entity_id, last_call.page.labels)
    /\ last_call.op = "resolve_batch"
          => \A entity_id \in DOMAIN last_response :
                cache[entity_id].label =
                    SelectedLabel(entity_id, last_response[entity_id].labels)

\* The ids of the chunks of the latest resolve_batch whose request raised.
Degraded == FailedIds(requests, last_call.failed)

(* C26: a resolve whose lookup fails returns the identifier as the label and
   caches it; a resolve_batch of which a request fails caches every id of
   that request under the identifier as label, leaves the entries cached
   before alone, and still caches what the other requests answered. *)
C26_FailuresDegradeToIds ==
    /\ (last_call.op = "resolve" /\ last_call.page.status = "failed")
          => \A entity_id \in last_call.ids :
                /\ last_call.returned = IdText(entity_id)
                /\ cache[entity_id] =
                      [label |-> IdText(entity_id), description |-> NoneText]
    /\ last_call.op = "resolve_batch"
          => /\ \A eid \in Degraded :
                   /\ eid \in DOMAIN cache
                   /\ cache[eid] =
                         [label |-> IdText(eid), description |-> NoneText]
             /\ \A eid \in DOMAIN last_response : eid \in DOMAIN cache

\* A resolve_batch of two requests: the first raised, the second answered.
C26_Witness ==
    /\ last_call.op = "resolve_batch"
    /\ Len(requests) = 2
    /\ last_call.failed = {1}
    /\ DOMAIN last_response # {}

\* This step is a call resolve_batch(entity_ids).
Batched(entity_ids) ==
    /\ calls' = calls + 1
    /\ last_call'.op = "resolve_batch"
    /\ last_call'.ids = entity_ids

\* In how many of the requests sent by this step eid is.
TimesRequested(eid) ==
    Cardinality({ k \in DOMAIN requests' : eid \in SeqSet(requests'[k]) })

(* C27: resolve_batch requests no id that is cached when it is called, sends
   requests of at most ChunkSize ids, puts every id that is not cached in
   exactly one request, and sends no request when every id is cached or
   there is none. *)
C27_RequestsOnlyUncachedInChunks ==
    [][ \A entity_ids \in SUBSET EntityIds :
          Batched(entity_ids) =>
             /\ \A k \in DOMAIN requests' :
                   /\ Len(requests'[k]) \in 1..ChunkSize
                   /\ \A i, j \in DOMAIN requests'[k] :
                         i # j => requests'[k][i] # requests'[k][j]
             /\ \A eid \in EntityIds :
                   TimesRequested(eid) =
                      IF eid \in entity_ids /\ eid \notin DOMAIN cache
                      THEN 1 ELSE 0
             /\ entity_ids \subseteq DOMAIN cache => requests' = <<>>
      ]_vars

\* A resolve_batch that skipped a cached id and requested the others.
C27_Witness ==
    /\ last_call.op = "resolve_batch"
    /\ requests # <<>>
    /\ \E eid \in last_call.ids :
          \A k \in DOMAIN requests : eid \notin SeqSet(requests[k])

(* C28: prime(id, label, description) replaces the whole entry of id by that
   label and that description (absent when none is given) and touches no
   other entry; a resolve or resolve_description of id right after it makes
   no network call and returns that label or that description. *)
C28_PrimeReplacesEntry ==
    [][ /\ (calls' = calls + 1 /\ last_call'.op = "prime") =>
              \A entity_id \in last_call'.ids :
                 /\ DOMAIN cache' = DOMAIN cache \cup {entity_id}
                 /\ cache'[entity_id] =
                       [label |-> last_call'.label,
                        description |-> last_call'.description]
                 /\ \A other \in DOMAIN cache \ {entity_id} :
                       cache'[other] = cache[other]
        /\ last_call.op = "prime" =>
              \A entity_id \in last_call.ids :
                 Looked(entity_id) =>
                    /\ last_call'.page_gets = 0
                    /\ last_call'.returned =
                          IF last_call'.op = "resolve"
                          THEN last_call.label
                          ELSE last_call.description
      ]_vars

\* An entry with a description was primed without one, and
\* resolve_description then returned none.
C28_Witness ==
    /\ calls >= 2
    /\ last_call.op = "resolve_description"
    /\ last_call.page_gets = 0
    /\ last_call.returned = NoneText
    /\ \E entity_id \in last_call.ids :
          cache[entity_id].label = PrimedLabel

\* The edits of the groups, in order, without what group_edits wrote on them.
RECURSIVE Flatten(_)
Flatten(gs) ==
    IF gs = <<>> THEN <<>>
    ELSE [i \in DOMAIN Head(gs) |->
             [rcid |-> Head(gs)[i].rcid, title |-> Head(gs)[i].title,
              user |-> Head(gs)[i].user]]
         \o Flatten(Tail(gs))

\* The maximal runs of equal (title, user) in the input.
Runs ==
    Cardinality({ i \in DOMAIN group_input :
                    i = 1 \/ Key(group_input[i]) # Key(group_input[i - 1]) })

(* C29: the groups of group_edits, concatenated in order, are the input list
   in its order; no group is empty, every group has one (title, user) key,
   adjacent groups have different keys, and there are as many groups as
   maximal runs of equal (title, user) in the input. *)
C29_StablePartitionIntoRuns ==
    grouped =>
        /\ Flatten(groups) = group_input
        /\ \A g \in DOMAIN groups :
              /\ groups[g] # <<>>
              /\ \A i \in DOMAIN groups[g] :
                    Key(groups[g][i]) = Key(groups[g][1])
        /\ \A g \in DOMAIN groups :
              g > 1 => Key(groups[g][1]) # Key(groups[g - 1][1])
        /\ Len(groups) = Runs

\* Two edits of one key with an edit of another key between them ended up
\* in a first and a third group.
C29_Witness ==
    /\ grouped
    /\ Len(groups) >= 3
    /\ Key(groups[1][1]) = Key(groups[3][1])

\* C24: once the group's ids have gone through resolve_batch, serializing the
\* item, the diffs and the removed claims finds every id in the cache,
\* whatever the batch endpoint answered: no id is looked up on its own.
C24_SerializationHitsCache ==
    enriched => lookups = {}

\* The revision ids the group refers to, as revid or as old_revid.
ReferencedRevisions ==
    { group[i].revid : i \in DOMAIN group }
      \cup { group[i].old_revid : i \in DOMAIN group }

TimesFetched(r) ==
    Cardinality({ i \in DOMAIN fetch_log : fetch_log[i] = r })

\* C30: enrich_edit_group fetches every revision id the group refers to, as
\* revid or as old_revid, once and no more, the ones whose fetch fails
\* included.
C30_EachRevisionFetchedOnce ==
    enriched =>
        /\ \A r \in ReferencedRevisions : TimesFetched(r) = 1
        /\ SeqSet(fetch_log) = ReferencedRevisions

\* Two edits share a revision whose fetch failed.
C30_Witness ==
    /\ enriched
    /\ Len(group) = 2
    /\ group[1].revid = group[2].old_revid
    /\ store[group[1].revid].status = "failed"
    /\ TimesFetched(group[1].revid) = 1

\* The fetch of revision r failed.
FetchFailed(r) == store[r].status = "failed"

\* C31: an edit is degraded only by a failed fetch of its own revid or
\* old_revid: item and edit_diff carry the error when the new revision
\* failed, edit_diff is partial when only the old one failed, and every
\* edit whose two revisions were fetched gets the item context and a diff
\* (absent when its summary does not parse); every edit of the group gets
\* its result.
C31_OnlyDependentEditsDegraded ==
    enriched =>
        /\ Len(results) = Len(group)
        /\ \A i \in DOMAIN group :
              IF FetchFailed(group[i].revid)
              THEN results[i].item = "error" /\ results[i].edit_diff = "error"
              ELSE IF FetchFailed(group[i].old_revid)
              THEN results[i].edit_diff = "partial"
              ELSE /\ results[i].item = "context"
                   /\ results[i].edit_diff \in {"diff", "None"}

\* The kind the question is chosen by: the type of the diff the edit
\* carries, and the kind of its operation when it carries an error.
QuestionKind ==
    IF q_diff.state = "returned" THEN q_diff.value.type
    ELSE OPERATION_TO_DIFF_TYPE(q_parsed)

\* C32: compute_edit_diff returns None exactly when the parsed edit is None,
\* make_verification_question returns None exactly when the parsed edit is
\* None, and a parsed edit gets the template of its diff kind, the fallback
\* template when that kind has none.
C32_AbsentExactlyWhenUnparsed ==
    /\ q_diff.state = "returned" =>
          (q_diff.value = NoDiff <=> q_parsed = "None")
    /\ question # "unasked" =>
          /\ question = "None" <=> q_parsed = "None"
          /\ q_parsed # "None" =>
                question = IF QuestionKind \in TemplateKinds
                           THEN QuestionKind ELSE "fallback"

\* An edit of an operation outside the table got the fallback question.
C32_Witness ==
    /\ q_parsed = "wbeditentity-update"
    /\ q_diff.state = "returned"
    /\ q_diff.value.type = "unknown"
    /\ question = "fallback"

IsPrefix(s, t) ==
    /\ Len(s) <= Len(t)
    /\ \A k \in 1..Len(s) : t[k] = s[k]

\* A step that ends a tool_calls turn of the investigation loop.
ToolTurnEnds ==
    /\ phase = "inv_call"
    /\ phase' \in {"inv_check", "inv_returned"}
    /\ last_finish_reason' = "tool_calls"

\* C33: while the investigation runs, the transcript keeps the initial
\* messages as its prefix and is only appended to, and a tool_calls turn
\* appends the assistant message listing the requested calls and then one
\* tool message per requested call, in request order, each with the id of
\* its call.
C33_TranscriptAppendOnly ==
    [][ /\ phase \in {"inv_check", "inv_call"} =>
              /\ IsPrefix(initial_messages, messages')
              /\ IsPrefix(messages, messages')
        /\ ToolTurnEnds =>
              LET requested == last_tool_calls'
                  base == Len(messages)
              IN  /\ Len(messages') = base + 1 + Len(requested)
                  /\ messages'[base + 1].role = "assistant"
                  /\ Len(messages'[base + 1].tool_calls) = Len(requested)
                  /\ \A k \in 1..Len(requested) :
                        /\ messages'[base + 1].tool_calls[k].id
                              = requested[k].id
                        /\ messages'[base + 1 + k].role = "tool"
                        /\ messages'[base + 1 + k].tool_call_id
                              = requested[k].id ]_vars

\* A turn that requested three calls has been appended.
C33_Witness ==
    /\ phase = "inv_check"
    /\ turn = 1
    /\ Len(last_tool_calls) = 3
    /\ Len(messages) = Len(initial_messages) + 4
    /\ messages[Len(messages)].tool_call_id = 3

\* The units the driver is through with.
UnitsDone == { p \in 1..total : p < pos /\ returned[p] # "none" }

TimedOut == { p \in UnitsDone : returned[p] = "timed_out" }

CheckpointedAt(p) == \E k \in DOMAIN checkpoint_writes : checkpoint_writes[k] = p

\* C34: a unit that timed out has its verdict record written with
\* timeout = true, its pair is in the checkpoint file, and it is counted
\* under timeout alone: the error count is made of the units that raised
\* and of the returned units whose files could not be written.
C34_TimeoutIsItsOwnOutcome ==
    /\ \A p \in TimedOut :
          /\ \E k \in DOMAIN verdict_writes :
                verdict_writes[k] = [pos |-> p, pair |-> pairs[p],
                                     timeout |-> TRUE]
          /\ pairs[p] \in checkpoint_file
    /\ timeout_count = Cardinality(TimedOut)
    /\ driver # "join" =>
          /\ error_count =
                Cardinality({ p \in UnitsDone :
                                \/ returned[p] = "raised"
                                \/ returned[p] = "result" /\ ~CheckpointedAt(p) })
          /\ completed_count =
                Cardinality({ p \in UnitsDone : returned[p] = "result" })

\* C35: when the counts are reported, they sum to the number of pairs of the
\* execution order.
C35_CountsSumToPairs ==
    driver = "done" =>
        completed_count + skipped_count + timeout_count + error_count = total

\* C36: the driver terminates, its counts reported, also when workers never
\* return.
C36_DriverTerminates == <>(driver = "done")

\* The run is over while a worker that timed out is still inside its call,
\* its signal set and never looked at.
C36_Witness ==
    /\ driver = "done"
    /\ \E p \in 1..total :
          /\ returned[p] = "timed_out"
          /\ wstate[p] = "running"
          /\ cancel[p]

\* C37: a unit is dispatched with its flag unset; a flag is set only for the
\* unit whose own join expired, one flag per step; and a flag that is set
\* stays set.
C37_OneFlagPerUnit ==
    [][ /\ dispatched' # dispatched => ~cancel'[pos]
        /\ \A p \in Positions :
              /\ cancel'[p] => returned'[p] = "timed_out"
              /\ cancel[p] => cancel'[p]
              /\ (~cancel[p] /\ cancel'[p]) => (p = pos /\ driver = "join") ]_vars

\* A unit after the one that timed out ran to its end with its flag unset,
\* the abandoned worker's flag still set.
C37_Witness ==
    \E p, q \in 1..total :
       /\ p < q
       /\ returned[p] = "timed_out" /\ cancel[p] /\ IsAlive(p)
       /\ returned[q] = "result" /\ ~cancel[q]

\* The pairs whose verdict file this run has written.
VerdictWritten == { verdict_writes[k].pair : k \in DOMAIN verdict_writes }

\* C38: every pair of the checkpoint file that was not loaded at start-up
\* has its verdict file written, the file holds every loaded pair, and no
\* step takes a pair out of it.
C38_CheckpointGrowsAfterVerdicts ==
    [][ /\ \A pair \in checkpoint_file' \ loaded : pair \in VerdictWritten'
        /\ loaded \subseteq checkpoint_file'
        /\ checkpoint_file \subseteq checkpoint_file' ]_vars

\* C39: no call of the label cache takes an identifier out of it: the ids
\* cached before a step are cached after it.
C39_CacheOnlyGrows ==
    [][DOMAIN cache \subseteq DOMAIN cache']_vars

\* Several ids are cached, more calls were served than ids are cached, and
\* the latest call was a prime.
C39_Witness ==
    /\ Cardinality(DOMAIN cache) >= 2
    /\ calls > Cardinality(DOMAIN cache)
    /\ last_call.op = "prime"

\* The entry a failed lookup leaves in the cache.
FallbackEntry(entity_id) ==
    [label |-> IdText(entity_id), description |-> NoneText]

\* C40: an id cached by the fallback of a failed lookup keeps that entry
\* through every call that does not prime it: resolve returns the id and
\* resolve_description nothing, both without a page lookup, and no request
\* of resolve_batch names the id.
C40_FallbackIsCached ==
    [][\A entity_id \in fallbacks :
          /\ cache[entity_id] = FallbackEntry(entity_id)
          /\ ~(last_call'.op = "prime" /\ entity_id \in last_call'.ids) =>
                /\ entity_id \in fallbacks'
                /\ cache'[entity_id] = FallbackEntry(entity_id)
                /\ (last_call'.op = "resolve" /\ last_call'.ids = {entity_id})
                      => /\ last_call'.returned = IdText(entity_id)
                         /\ last_call'.page_gets = 0
                /\ (/\ last_call'.op = "resolve_description"
                    /\ last_call'.ids = {entity_id})
                      => /\ last_call'.returned = NoneText
                         /\ last_call'.page_gets = 0
                /\ last_call'.op = "resolve_batch"
                      => \A k \in DOMAIN requests' :
                            entity_id \notin SeqSet(requests'[k]) ]_vars

\* An id that fell back was asked for again in a batch that sent a request
\* for other ids only.
C40_Witness ==
    /\ last_call.op = "resolve_batch"
    /\ requests # <<>>
    /\ \E entity_id \in fallbacks \cap last_call.ids :
          \A k \in DOMAIN requests : entity_id \notin SeqSet(requests[k])

====
